---- MODULE Spec2Model ----
(***************************************************************************)
(* A model of the market-data dependency and pricing-orchestration core of *)
(* rustmetrics: InstrumentCategory / EngineGenerator partitioning          *)
(* (pricing_engines/engine_generator.rs), the EvaluationDate observer      *)
(* graph (evaluation_date.rs, parameters/market_price.rs), the parallel    *)
(* EngineGenerator::calculate, the curve resolution of MatchParameter      *)
(* (pricing_engines/match_parameter.rs), the pricer construction of        *)
(* PricerFactory (pricing_engines/pricer_factory.rs), and the value types  *)
(* CalculationResult (pricing_engines/calculation_result.rs), FxCode       *)
(* (currency.rs) and FinerPeriod (time/period.rs).                         *)
(*                                                                         *)
(* Option<T> is modelled as a sequence: <<>> is None and <<x>> is Some(x). *)
(* A Vec that the code only tests for membership (type_names, currency) is *)
(* a set; a Vec that the code compares or iterates in order is a sequence. *)
(***************************************************************************)
EXTENDS Integers, Sequences, FiniteSets, TLC

VARIABLES
    \* ---- EngineGenerator (engine_generator.rs:72-93) ----
    instruments,            \* Instruments: Vec<Rc<Instrument>>
    instrument_categories,  \* Vec<InstrumentCategory>
    instrument_group_vec,   \* Vec<Vec<Instrument>>
    \* ---- EvaluationDate objects (evaluation_date.rs:105-112) ----
    ed,                     \* handle -> [exists, date, marketprice_observers,
                            \*            dividend_observers]
    \* ---- MarketPrice objects (market_price.rs:18-26) ----
    mp,                     \* handle -> [value, market_datetime, dividend]
                            \* (and, as history, the market_datetime it was
                            \* constructed with)
    \* ---- DiscreteRatioDividend objects ----
    dividends,              \* handle -> [ratio_dividend, loaded]
    \* ---- history ----
    log,                    \* observers whose update_evaluation_date the last
                            \* date change called, in call order
    before,                 \* date and observer values before the last date change
    \* ---- EngineGenerator::calculate (engine_generator.rs:226-283) ----
    phase,                  \* where the calculate() call is
    pc,                     \* group index -> where its parallel worker is
    shared_results,         \* the map behind Arc<Mutex<..>>
    lock,                   \* the group whose worker holds the Mutex, or 0
    saved_error,            \* the group whose Err the collect() keeps, or 0
    calculation_results,    \* EngineGenerator.calculation_results
    \* ---- curve resolution and pricer construction ----
    instrument_arg,         \* the Instrument handed to the call
    match_parameter,        \* MatchParameter (match_parameter.rs:17-37)
    factory,                \* PricerFactory (pricer_factory.rs:25-35)
    \* ---- value types ----
    calculation_result,     \* a CalculationResult (calculation_result.rs:41-62)
    fxcode,                 \* an FxCode (currency.rs:131-134)
    val_arg,                \* the &str handed to FinerPeriod::new_from_string
    ret                     \* what the last call returned to its caller

generatorVars == <<instruments, instrument_categories, instrument_group_vec>>

dateVars == <<ed, mp, dividends, log, before>>

calcVars == <<phase, pc, shared_results, lock, saved_error, calculation_results>>

pricingVars == <<instrument_arg, match_parameter, factory>>

valueVars == <<calculation_result, fxcode, val_arg>>

vars == <<generatorVars, dateVars, calcVars, pricingVars, valueVars, ret>>

----------------------------------------------------------------------------
(* Option<T> *)

None == <<>>

Some(x) == <<x>>

IsSome(o) == Len(o) = 1

Unwrap(o) == o[1]

(* The elements of a sequence, and all sequences of bounded length. *)
Range(s) == {s[i] : i \in 1..Len(s)}

SeqsUpTo(S, n) == UNION {[1..k -> S] : k \in 0..n}

----------------------------------------------------------------------------
(* Bounds of the partitioning model *)

MaxInstruments == 2

MaxCategories == 2

(* Instruments as InstrumentCategory::contains sees them: the type name,   *)
(* the currency and the underlying-id list.  Underlying ids are StaticIds, *)
(* here 1 and 2.  A Bond reports no underlying ids (the default of         *)
(* InstrumentTrait::get_underlying_ids); a Futures reports its own list.   *)
Currencies == {"KRW", "USD"}

InstrumentSet ==
    [type_name : {"Bond"}, currency : Currencies, underlying_ids : {<<>>}]
    \cup
    [type_name : {"Futures"}, currency : {"KRW"},
     underlying_ids : {<<1>>, <<1, 2>>}]

CategorySet ==
    [type_names     : {None, Some({"Futures"})},
     currency       : {None, Some({"KRW"})},
     underlying_ids : {None, Some(<<1>>), Some(<<1, 2>>)}]

(* Group vectors left in the generator by an earlier successful            *)
(* distribute_instruments() call, before with_instruments() replaced the   *)
(* instrument list.                                                        *)
PriorGroupVecs ==
    {<<>>,
     << <<[type_name |-> "Bond", currency |-> "USD", underlying_ids |-> <<>>]>> >>}

----------------------------------------------------------------------------
(* InstrumentCategory::contains *)

(* A variant that compares the underlying ids of every instrument, those   *)
(* without underlying ids included.                                        *)
contains_by_equality(category, instrument) ==
    /\ IsSome(category.type_names)
          => instrument.type_name \in Unwrap(category.type_names)
    /\ IsSome(category.currency)
          => instrument.currency \in Unwrap(category.currency)
    /\ IsSome(category.underlying_ids)
          => Unwrap(category.underlying_ids) = instrument.underlying_ids

(* A variant that tests the underlying ids by inclusion instead of by      *)
(* equality.                                                               *)
contains_by_inclusion(category, instrument) ==
    /\ IsSome(category.type_names)
          => instrument.type_name \in Unwrap(category.type_names)
    /\ IsSome(category.currency)
          => instrument.currency \in Unwrap(category.currency)
    /\ IsSome(category.underlying_ids)
          => Range(Unwrap(category.underlying_ids)) \subseteq Range(instrument.underlying_ids)

contains(category, instrument) ==
    LET res0 == TRUE
        res1 == IF IsSome(category.type_names)
                   /\ instrument.type_name \notin Unwrap(category.type_names)
                THEN FALSE ELSE res0
        res2 == IF IsSome(category.currency)
                   /\ instrument.currency \notin Unwrap(category.currency)
                THEN FALSE ELSE res1
        res3 == IF IsSome(category.underlying_ids)
                   /\ instrument.underlying_ids # <<>>
                   /\ Unwrap(category.underlying_ids) # instrument.underlying_ids
                THEN FALSE ELSE res2
    IN  res3

(* A variant of scan_instruments that ignores distribution_checker, so that every matching     *)
(* category claims the instrument.                                         *)
RECURSIVE scan_instruments_unchecked(_, _, _, _, _)
scan_instruments_unchecked(category, insts, i, instrument_group, distribution_checker) ==
    IF i > Len(insts)
    THEN [instrument_group |-> instrument_group,
          distribution_checker |-> distribution_checker]
    ELSE IF contains(category, insts[i])
         THEN scan_instruments_unchecked(category, insts, i + 1,
                               Append(instrument_group, insts[i]),
                               [distribution_checker EXCEPT ![i] = TRUE])
         ELSE scan_instruments_unchecked(category, insts, i + 1,
                               instrument_group, distribution_checker)

(* The inner loop of distribute_instruments: one category scans the        *)
(* instruments by position, from position i on, and claims those that no   *)
(* earlier category has claimed.                                           *)
RECURSIVE scan_instruments(_, _, _, _, _)
scan_instruments(category, insts, i, instrument_group, distribution_checker) ==
    IF i > Len(insts)
    THEN [instrument_group |-> instrument_group,
          distribution_checker |-> distribution_checker]
    ELSE IF ~distribution_checker[i] /\ contains(category, insts[i])
         THEN scan_instruments(category, insts, i + 1,
                               Append(instrument_group, insts[i]),
                               [distribution_checker EXCEPT ![i] = TRUE])
         ELSE scan_instruments(category, insts, i + 1,
                               instrument_group, distribution_checker)

(* A variant of scan_categories that gives priority to the last category: it scans the       *)
(* categories from the end of the list and puts each new group in front.   *)
RECURSIVE scan_categories_last_first(_, _, _, _, _)
scan_categories_last_first(categories, insts, c, group_vec, distribution_checker) ==
    IF c > Len(categories)
    THEN [instrument_group_vec |-> group_vec,
          distribution_checker |-> distribution_checker]
    ELSE LET r == scan_instruments(categories[Len(categories) + 1 - c], insts,
                                   1, <<>>, distribution_checker)
         IN  scan_categories_last_first(categories, insts, c + 1,
                             IF r.instrument_group # <<>>
                             THEN <<r.instrument_group>> \o group_vec
                             ELSE group_vec,
                             r.distribution_checker)

(* The outer loop: the categories in the given order; only a non-empty     *)
(* group is pushed.                                                        *)
RECURSIVE scan_categories(_, _, _, _, _)
scan_categories(categories, insts, c, group_vec, distribution_checker) ==
    IF c > Len(categories)
    THEN [instrument_group_vec |-> group_vec,
          distribution_checker |-> distribution_checker]
    ELSE LET r == scan_instruments(categories[c], insts, 1, <<>>,
                                   distribution_checker)
         IN  scan_categories(categories, insts, c + 1,
                             IF r.instrument_group # <<>>
                             THEN Append(group_vec, r.instrument_group)
                             ELSE group_vec,
                             r.distribution_checker)

(* The second loop: one message per instrument left undistributed, in      *)
(* position order.  A message shows the instrument's name, code, type,     *)
(* currency and underlying ids; here it is the position and the instrument.*)
RECURSIVE inst_name_msgs(_, _, _)
inst_name_msgs(insts, distribution_checker, i) ==
    IF i > Len(insts) THEN <<>>
    ELSE (IF ~distribution_checker[i]
          THEN <<[position |-> i, instrument |-> insts[i]]>>
          ELSE <<>>)
         \o inst_name_msgs(insts, distribution_checker, i + 1)

(* EngineGenerator::distribute_instruments, as a function of the generator *)
(* fields it reads: the returned Result and the stored groups afterwards.  *)
(* A variant that stores the partial distribution before it reports the    *)
(* undistributed instruments.                                              *)
distribute_instruments_partial(insts, categories, stored_group_vec) ==
    LET r    == scan_categories(categories, insts, 1, <<>>,
                                [i \in 1..Len(insts) |-> FALSE])
        msgs == inst_name_msgs(insts, r.distribution_checker, 1)
    IN  [ret |-> [op |-> "distribute_instruments", ok |-> msgs = <<>>, msgs |-> msgs],
         instrument_group_vec |-> r.instrument_group_vec]

distribute_instruments(insts, categories, stored_group_vec) ==
    LET r    == scan_categories(categories, insts, 1, <<>>,
                                [i \in 1..Len(insts) |-> FALSE])
        msgs == inst_name_msgs(insts, r.distribution_checker, 1)
    IN  IF msgs # <<>>
        THEN [ret |-> [op |-> "distribute_instruments", ok |-> FALSE, msgs |-> msgs],
              instrument_group_vec |-> stored_group_vec]
        ELSE [ret |-> [op |-> "distribute_instruments", ok |-> TRUE, msgs |-> <<>>],
              instrument_group_vec |-> r.instrument_group_vec]

----------------------------------------------------------------------------
(* Specification of the partitioning: a generator configured by            *)
(* with_instruments / with_instrument_categories, then                     *)
(* distribute_instruments().                                               *)

NoCall == [op |-> "none", ok |-> TRUE, msgs |-> <<>>]

(* No EvaluationDate, MarketPrice or dividend object is in play. *)
NoDates ==
    /\ ed = <<>> /\ mp = <<>> /\ dividends = <<>>
    /\ log = <<>> /\ before = [taken |-> FALSE]

(* No calculate() call is in play. *)
NoCalculation ==
    /\ phase = "configured" /\ pc = <<>> /\ shared_results = <<>>
    /\ lock = 0 /\ saved_error = 0 /\ calculation_results = <<>>

(* No curve is being resolved and no pricer built. *)
NoPricing ==
    /\ instrument_arg = <<>> /\ match_parameter = <<>> /\ factory = <<>>

(* No value object is in play. *)
NoValues ==
    /\ calculation_result = <<>> /\ fxcode = <<>> /\ val_arg = <<>>

(* The generator is not in play. *)
NoGenerator ==
    /\ instruments = <<>> /\ instrument_categories = <<>>
    /\ instrument_group_vec = <<>>
    /\ NoCalculation

InitDistribute ==
    /\ instruments \in SeqsUpTo(InstrumentSet, MaxInstruments)
    /\ instrument_categories \in SeqsUpTo(CategorySet, MaxCategories)
    /\ instrument_group_vec \in PriorGroupVecs
    /\ ret = NoCall
    /\ NoDates
    /\ NoPricing
    /\ NoCalculation
    /\ NoValues

DistributeInstruments ==
    LET r == distribute_instruments(instruments, instrument_categories,
                                    instrument_group_vec)
    IN  /\ ret' = r.ret
        /\ instrument_group_vec' = r.instrument_group_vec
        /\ UNCHANGED <<instruments, instrument_categories, dateVars, calcVars, pricingVars, valueVars>>

NextDistribute == DistributeInstruments

SpecDistribute == InitDistribute /\ [][NextDistribute]_vars

----------------------------------------------------------------------------
(* Properties of the partitioning *)

Distributed == ret.op = "distribute_instruments"

(* How many positions of the sequence s hold x. *)
Occurrences(s, x) == Cardinality({i \in 1..Len(s) : s[i] = x})

RECURSIVE OccurrencesInGroups(_, _)
OccurrencesInGroups(group_vec, x) ==
    IF group_vec = <<>> THEN 0
    ELSE Occurrences(Head(group_vec), x) + OccurrencesInGroups(Tail(group_vec), x)

(* The categories that match the instrument, by index. *)
Matching(instrument) ==
    {c \in 1..Len(instrument_categories) : contains(instrument_categories[c], instrument)}

Covered == \A i \in 1..Len(instruments) : Matching(instruments[i]) # {}

(* C1: after distribute_instruments() returns Ok, every instrument of the  *)
(* input, counted by position, is in exactly one group and the groups hold *)
(* nothing else; the call returns Ok for every category list that covers   *)
(* every instrument.                                                       *)
C1_ExactlyOneGroup ==
    Distributed =>
        /\ Covered => ret.ok
        /\ ret.ok =>
             /\ \A x \in InstrumentSet :
                    OccurrencesInGroups(instrument_group_vec, x)
                        = Occurrences(instruments, x)
             /\ \A g \in 1..Len(instrument_group_vec) :
                    instrument_group_vec[g] # <<>>

C1_Witness ==
    /\ Distributed /\ ret.ok
    /\ Len(instruments) = 2 /\ instruments[1] = instruments[2]
    /\ Len(instrument_categories) = 2
    /\ Cardinality(Matching(instruments[1])) = 2

(* C2: when some instrument matches no category the call returns an error  *)
(* whose message lists every undistributed instrument, and the stored      *)
(* groups are those of before the call.                                    *)
UncoveredPositions ==
    {i \in 1..Len(instruments) : Matching(instruments[i]) = {}}

C2_ErrorListsAllAndKeepsGroups ==
    [][ (ret'.op = "distribute_instruments" /\ UncoveredPositions # {}) =>
            /\ ~ret'.ok
            /\ Len(ret'.msgs) = Cardinality(UncoveredPositions)
            /\ \A k \in 1..Len(ret'.msgs) :
                   /\ ret'.msgs[k].position \in UncoveredPositions
                   /\ ret'.msgs[k].instrument = instruments[ret'.msgs[k].position]
                   /\ \A j \in 1..(k - 1) :
                          ret'.msgs[j].position < ret'.msgs[k].position
            /\ instrument_group_vec' = instrument_group_vec ]_vars

C2_Witness ==
    /\ Distributed /\ ~ret.ok
    /\ Len(ret.msgs) = 1 /\ Len(instruments) = 2
    /\ Matching(instruments[1]) # {}
    /\ instrument_group_vec # <<>>

(* C3: each instrument is in the group of the first category, in the given *)
(* order, that matches it.                                                 *)
FirstMatch(instrument) ==
    CHOOSE c \in Matching(instrument) : \A d \in Matching(instrument) : c <= d

FirstMatchGroup(c) ==
    SelectSeq(instruments, LAMBDA x : Matching(x) # {} /\ FirstMatch(x) = c)

RECURSIVE FirstMatchGroups(_)
FirstMatchGroups(c) ==
    IF c > Len(instrument_categories) THEN <<>>
    ELSE (IF FirstMatchGroup(c) # <<>> THEN <<FirstMatchGroup(c)>> ELSE <<>>)
         \o FirstMatchGroups(c + 1)

C3_FirstMatchWins ==
    (Distributed /\ ret.ok) => instrument_group_vec = FirstMatchGroups(1)

C3_Witness ==
    /\ Distributed /\ ret.ok
    /\ Len(instrument_categories) = 2 /\ Len(instruments) = 2
    /\ Matching(instruments[1]) = {1, 2}
    /\ Matching(instruments[2]) = {2}
    /\ Len(instrument_group_vec) = 2

(* C4, as claimed: contains() is true exactly when the type filter, the    *)
(* currency filter and the underlying filter hold, the underlying filter   *)
(* being unset or equal, as a list, to the instrument's underlying ids.    *)
TypeFilterHolds(category, instrument) ==
    category.type_names = None
        \/ instrument.type_name \in Unwrap(category.type_names)

CurrencyFilterHolds(category, instrument) ==
    category.currency = None
        \/ instrument.currency \in Unwrap(category.currency)

C4_ContainsExactEquality ==
    Distributed =>
        \A c \in 1..Len(instrument_categories), i \in 1..Len(instruments) :
            contains(instrument_categories[c], instruments[i])
                <=> /\ TypeFilterHolds(instrument_categories[c], instruments[i])
                    /\ CurrencyFilterHolds(instrument_categories[c], instruments[i])
                    /\ \/ instrument_categories[c].underlying_ids = None
                       \/ Unwrap(instrument_categories[c].underlying_ids)
                              = instruments[i].underlying_ids

(* C4, amended: the underlying filter also holds for every instrument      *)
(* whose underlying-id list is empty.                                      *)
C4_ContainsEqualityOrNoUnderlying ==
    Distributed =>
        \A c \in 1..Len(instrument_categories), i \in 1..Len(instruments) :
            contains(instrument_categories[c], instruments[i])
                <=> /\ TypeFilterHolds(instrument_categories[c], instruments[i])
                    /\ CurrencyFilterHolds(instrument_categories[c], instruments[i])
                    /\ \/ instrument_categories[c].underlying_ids = None
                       \/ instruments[i].underlying_ids = <<>>
                       \/ Unwrap(instrument_categories[c].underlying_ids)
                              = instruments[i].underlying_ids

C4_Witness ==
    /\ Distributed
    /\ Len(instrument_categories) = 1 /\ Len(instruments) = 2
    /\ instrument_categories[1].underlying_ids = Some(<<1>>)
    /\ instruments[1].underlying_ids = <<1, 2>>
    /\ instruments[2].underlying_ids = <<>>
    /\ ~contains(instrument_categories[1], instruments[1])
    /\ contains(instrument_categories[1], instruments[2])

----------------------------------------------------------------------------
(* Real arithmetic.  A Real is a fraction num/den in lowest terms with     *)
(* den >= 0; 1/0 is +infinity and 0/0 is NaN, so that multiplication and   *)
(* division of non-negative values give what the floating-point operations *)
(* give for a zero divisor (x/0 = inf, 0/0 = NaN, inf*0 = NaN), without    *)
(* rounding.                                                               *)

RECURSIVE Gcd(_, _)
Gcd(a, b) == IF b = 0 THEN a ELSE Gcd(b, a % b)

Real(n, d) ==
    IF n = 0 /\ d = 0 THEN [num |-> 0, den |-> 0]
    ELSE [num |-> n \div Gcd(n, d), den |-> d \div Gcd(n, d)]

IsNaN(x) == x.num = 0 /\ x.den = 0

Mul(x, y) == Real(x.num * y.num, x.den * y.den)

Div(x, y) == Real(x.num * y.den, x.den * y.num)

(* 1.0 - div, for a ratio div in [0, 1] *)
OneMinus(div) == Real(div.den - div.num, div.den)

(* IEEE equality: NaN is equal to nothing. *)
RealEq(x, y) == ~IsNaN(x) /\ ~IsNaN(y) /\ x = y

----------------------------------------------------------------------------
(* Bounds and objects of the evaluation-date model *)

MaxDate == 2

MaxObservers == 2

(* Datetimes are whole days 0..MaxDate. *)
Dates == 0..MaxDate

(* Handles of the objects behind the Rc<RefCell<..>> references. *)
EvaluationDateIds == {1, 2}

MarketPriceIds == {1, 2}

DividendIds == {1, 2}

(* Dividend schedules, as pairs of ex-date and ratio: two partial          *)
(* dividends, and one that pays out the whole price (ratio 1).             *)
PartialSchedule ==
    <<[date |-> 1, ratio |-> Real(1, 2)], [date |-> 2, ratio |-> Real(1, 4)]>>

FullPayoutSchedule ==
    <<[date |-> 1, ratio |-> Real(1, 1)]>>

InitialValue == Real(100, 1)

----------------------------------------------------------------------------
(* DiscreteRatioDividend *)

get_dividend_ratio(dividend) == dividend.ratio_dividend

(* update_evaluation_date of a dividend fails when the dividend cannot     *)
(* proceed (its schedule is not loaded); otherwise it leaves the ratios as *)
(* they are.                                                               *)
dividend_update_evaluation_date(dividend) == dividend.loaded

----------------------------------------------------------------------------
(* MarketPrice::update_evaluation_date *)

(* A variant of deduct_dividends over the closed interval                  *)
(* [market_datetime, eval_dt].                                             *)
RECURSIVE deduct_dividends_closed(_, _, _, _, _)
deduct_dividends_closed(value, div_ratio, i, market_datetime, eval_dt) ==
    IF i > Len(div_ratio) THEN value
    ELSE deduct_dividends_closed(
             IF div_ratio[i].date >= market_datetime /\ div_ratio[i].date <= eval_dt
             THEN Mul(value, OneMinus(div_ratio[i].ratio))
             ELSE value,
             div_ratio, i + 1, market_datetime, eval_dt)

(* The loop over div_ratio of the forward branch: every ex-date in         *)
(* (market_datetime, eval_dt] multiplies the value by 1 - div.             *)
RECURSIVE deduct_dividends(_, _, _, _, _)
deduct_dividends(value, div_ratio, i, market_datetime, eval_dt) ==
    IF i > Len(div_ratio) THEN value
    ELSE deduct_dividends(
             IF div_ratio[i].date > market_datetime /\ div_ratio[i].date <= eval_dt
             THEN Mul(value, OneMinus(div_ratio[i].ratio))
             ELSE value,
             div_ratio, i + 1, market_datetime, eval_dt)

(* A variant of roll_back_dividends that multiplies again where it should  *)
(* divide.                                                                 *)
roll_back_by_deducting(value, div_ratio, i, market_datetime, eval_dt) ==
    deduct_dividends(value, div_ratio, i, eval_dt, market_datetime)

(* The loop of the backward branch: every ex-date in                       *)
(* (eval_dt, market_datetime] divides the value by 1 - div.                *)
RECURSIVE roll_back_dividends(_, _, _, _, _)
roll_back_dividends(value, div_ratio, i, market_datetime, eval_dt) ==
    IF i > Len(div_ratio) THEN value
    ELSE roll_back_dividends(
             IF div_ratio[i].date > eval_dt /\ div_ratio[i].date <= market_datetime
             THEN Div(value, OneMinus(div_ratio[i].ratio))
             ELSE value,
             div_ratio, i + 1, market_datetime, eval_dt)

(* A variant of update_evaluation_date that leaves market_datetime as it   *)
(* was.                                                                    *)
update_evaluation_date_unsynced(market_price, dividend_objs, eval_dt) ==
    IF IsSome(market_price.dividend)
    THEN LET div_ratio ==
                 get_dividend_ratio(dividend_objs[Unwrap(market_price.dividend)])
         IN  IF market_price.market_datetime < eval_dt
             THEN [market_price EXCEPT
                      !.value = deduct_dividends(@, div_ratio, 1,
                                    market_price.market_datetime, eval_dt)]
             ELSE [market_price EXCEPT
                      !.value = roll_back_dividends(@, div_ratio, 1,
                                    market_price.market_datetime, eval_dt)]
    ELSE market_price

update_evaluation_date(market_price, dividend_objs, eval_dt) ==
    IF IsSome(market_price.dividend)
    THEN LET div_ratio ==
                 get_dividend_ratio(dividend_objs[Unwrap(market_price.dividend)])
         IN  IF market_price.market_datetime < eval_dt
             THEN [market_price EXCEPT
                      !.value = deduct_dividends(@, div_ratio, 1,
                                    market_price.market_datetime, eval_dt),
                      !.market_datetime = eval_dt]
             ELSE [market_price EXCEPT
                      !.value = roll_back_dividends(@, div_ratio, 1,
                                    market_price.market_datetime, eval_dt),
                      !.market_datetime = eval_dt]
    ELSE market_price

----------------------------------------------------------------------------
(* EvaluationDate::notify_observers *)

(* The first loop: every MarketPrice observer, in list order.  Its         *)
(* update_evaluation_date always returns Ok.                               *)
RECURSIVE notify_marketprices(_, _, _, _, _)
notify_marketprices(observers, i, prices, dividend_objs, eval_dt) ==
    IF i > Len(observers) THEN prices
    ELSE notify_marketprices(observers, i + 1,
             [prices EXCEPT ![observers[i]] =
                  update_evaluation_date(@, dividend_objs, eval_dt)],
             dividend_objs, eval_dt)

(* The second loop: every dividend observer, in list order; expect()       *)
(* panics at the first one whose update fails.  The result is the list of  *)
(* the observers called and whether the loop ran to its end.               *)
RECURSIVE notify_dividends(_, _, _, _)
notify_dividends(observers, i, dividend_objs, called) ==
    IF i > Len(observers) THEN [called |-> called, completed |-> TRUE]
    ELSE IF dividend_update_evaluation_date(dividend_objs[observers[i]])
         THEN notify_dividends(observers, i + 1, dividend_objs,
                               Append(called, <<"dividend", observers[i]>>))
         ELSE [called |-> Append(called, <<"dividend", observers[i]>>),
               completed |-> FALSE]

marketprice_calls(observers) ==
    [i \in 1..Len(observers) |-> <<"marketprice", observers[i]>>]

(* A variant of notify_observers that walks the dividend observers before  *)
(* the MarketPrice observers.                                              *)
notify_observers_dividends_first(evaluation_date, prices, dividend_objs) ==
    LET d == notify_dividends(evaluation_date.dividend_observers, 1,
                              dividend_objs, <<>>)
    IN  IF d.completed
        THEN [mp |-> notify_marketprices(evaluation_date.marketprice_observers,
                         1, prices, dividend_objs, evaluation_date.date),
              log |-> d.called
                        \o marketprice_calls(evaluation_date.marketprice_observers),
              outcome |-> "returned"]
        ELSE [mp |-> prices, log |-> d.called, outcome |-> "panicked"]

(* A variant of notify_observers that goes on to the next observer when an *)
(* update fails, and panics at the end.                                    *)
all_dividend_calls(observers) ==
    [i \in 1..Len(observers) |-> <<"dividend", observers[i]>>]

notify_observers_keep_going(evaluation_date, prices, dividend_objs) ==
    [mp |-> notify_marketprices(evaluation_date.marketprice_observers, 1,
                                prices, dividend_objs, evaluation_date.date),
     log |-> marketprice_calls(evaluation_date.marketprice_observers)
               \o all_dividend_calls(evaluation_date.dividend_observers),
     outcome |-> IF \A i \in 1..Len(evaluation_date.dividend_observers) :
                        dividend_update_evaluation_date(
                            dividend_objs[evaluation_date.dividend_observers[i]])
                 THEN "returned" ELSE "panicked"]

notify_observers(evaluation_date, prices, dividend_objs) ==
    LET m == notify_marketprices(evaluation_date.marketprice_observers, 1,
                                 prices, dividend_objs, evaluation_date.date)
        d == notify_dividends(evaluation_date.dividend_observers, 1,
                              dividend_objs, <<>>)
    IN  [mp |-> m,
         log |-> marketprice_calls(evaluation_date.marketprice_observers)
                   \o d.called,
         outcome |-> IF d.completed THEN "returned" ELSE "panicked"]

(* Calendar period arithmetic on whole days. *)
add_period(date, days) == date + days

sub_period(date, days) == date - days

----------------------------------------------------------------------------
(* Operations on EvaluationDate objects *)

NoDateCall == [op |-> "none", outcome |-> "returned"]

(* A panic unwinds out of the caller: nothing is called after it. *)
Running == ret.outcome = "returned"

(* EvaluationDate::new(date0) *)
new(date) ==
    [exists |-> TRUE, date |-> date,
     marketprice_observers |-> <<>>, dividend_observers |-> <<>>]

NotConstructed ==
    [exists |-> FALSE, date |-> 0,
     marketprice_observers |-> <<>>, dividend_observers |-> <<>>]

AddMarketpriceObserver(e, p) ==
    /\ Running /\ ed[e].exists
    /\ Len(ed[e].marketprice_observers) < MaxObservers
    /\ ed' = [ed EXCEPT ![e].marketprice_observers = Append(@, p)]
    /\ ret' = [op |-> "add_marketprice_observer", outcome |-> "returned"]
    /\ UNCHANGED <<mp, dividends, log, generatorVars, calcVars, pricingVars, valueVars>>

AddDividendObserver(e, d) ==
    /\ Running /\ ed[e].exists
    /\ Len(ed[e].dividend_observers) < MaxObservers
    /\ ed' = [ed EXCEPT ![e].dividend_observers = Append(@, d)]
    /\ ret' = [op |-> "add_dividend_observer", outcome |-> "returned"]
    /\ UNCHANGED <<mp, dividends, log, generatorVars, calcVars, pricingVars, valueVars>>

(* The common body of set_date, += and -=: store the date, then            *)
(* notify_observers().                                                     *)
ChangeDate(op, e, date) ==
    /\ Running /\ ed[e].exists
    /\ date \in Dates
    /\ ed' = [ed EXCEPT ![e].date = date]
    /\ LET r == notify_observers(ed'[e], mp, dividends)
       IN  /\ mp' = r.mp
           /\ log' = r.log
           /\ ret' = [op |-> op, e |-> e, date |-> date, outcome |-> r.outcome]
    /\ UNCHANGED <<dividends, generatorVars, calcVars, pricingVars, valueVars>>

SetDate(e) == \E date \in Dates : ChangeDate("set_date", e, date)

AddAssign(e) ==
    \E days \in 1..MaxDate :
        ChangeDate("add_assign", e, add_period(ed[e].date, days))

SubAssign(e) ==
    \E days \in 1..MaxDate :
        ChangeDate("sub_assign", e, sub_period(ed[e].date, days))

(* #[derive(Clone)]: the copy holds the date and clones of both Vecs of Rc *)
(* handles, that is, the same observers.                                   *)
(* A variant of Clone that leaves the observer lists out of the copy, as   *)
(* deserialization does.                                                   *)
Clone_without_observers(e, copy) ==
    /\ Running /\ ed[e].exists /\ ~ed[copy].exists
    /\ ed' = [ed EXCEPT ![copy] = new(ed[e].date)]
    /\ ret' = [op |-> "clone", outcome |-> "returned"]
    /\ UNCHANGED <<mp, dividends, log, generatorVars, calcVars, pricingVars, valueVars>>

Clone(e, copy) ==
    /\ Running /\ ed[e].exists /\ ~ed[copy].exists
    /\ ed' = [ed EXCEPT ![copy] = ed[e]]
    /\ ret' = [op |-> "clone", outcome |-> "returned"]
    /\ UNCHANGED <<mp, dividends, log, generatorVars, calcVars, pricingVars, valueVars>>

(* The date and the registered MarketPrice observers as they are before a  *)
(* date change on EvaluationDate 1.                                        *)
Remember ==
    before' = [taken |-> TRUE, date |-> ed[1].date,
               mp |-> [p \in Range(ed[1].marketprice_observers) |-> mp[p]]]

DateChangeOps == {"set_date", "add_assign", "sub_assign"}

----------------------------------------------------------------------------
(* Specification of the dividend adjustment: one EvaluationDate, its       *)
(* MarketPrice observers, date changes.  MarketPrice 1 has a dividend and  *)
(* any market datetime; MarketPrice 2 has none.                            *)

InitPrice ==
    /\ \E date0 \in Dates :
          /\ ed = [e \in EvaluationDateIds |->
                      IF e = 1 THEN new(date0) ELSE NotConstructed]
          /\ \E md \in Dates, d \in DividendIds :
                mp = [p \in MarketPriceIds |->
                         IF p = 1
                         THEN [value |-> InitialValue, market_datetime |-> md,
                               dividend |-> Some(d), constructed |-> md]
                         ELSE [value |-> InitialValue, market_datetime |-> date0,
                               dividend |-> None, constructed |-> date0]]
    /\ dividends = [d \in DividendIds |->
                       [ratio_dividend |-> IF d = 1 THEN PartialSchedule
                                           ELSE FullPayoutSchedule,
                        loaded |-> TRUE]]
    /\ log = <<>>
    /\ before = [taken |-> FALSE]
    /\ ret = NoDateCall
    /\ NoGenerator
    /\ NoPricing
    /\ NoValues

PriceRegister ==
    \E p \in MarketPriceIds : AddMarketpriceObserver(1, p) /\ UNCHANGED before

PriceSetDate == SetDate(1) /\ Remember

PriceAddAssign == AddAssign(1) /\ Remember

PriceSubAssign == SubAssign(1) /\ Remember

NextPrice == PriceRegister \/ PriceSetDate \/ PriceAddAssign \/ PriceSubAssign

SpecPrice == InitPrice /\ [][NextPrice]_vars

----------------------------------------------------------------------------
(* Specification of the notification: one EvaluationDate with MarketPrice  *)
(* and dividend observers, some of whose updates fail.                     *)

InitNotify ==
    /\ \E date0 \in Dates :
          /\ ed = [e \in EvaluationDateIds |->
                      IF e = 1 THEN new(date0) ELSE NotConstructed]
          /\ mp = [p \in MarketPriceIds |->
                      [value |-> InitialValue, market_datetime |-> date0,
                       dividend |-> IF p = 1 THEN Some(1) ELSE None]]
    /\ \E loaded \in [DividendIds -> BOOLEAN] :
          dividends = [d \in DividendIds |->
                          [ratio_dividend |-> IF d = 1 THEN PartialSchedule
                                              ELSE FullPayoutSchedule,
                           loaded |-> loaded[d]]]
    /\ log = <<>>
    /\ before = [taken |-> FALSE]
    /\ ret = NoDateCall
    /\ NoGenerator
    /\ NoPricing
    /\ NoValues

NotifyRegisterPrice ==
    \E p \in MarketPriceIds : AddMarketpriceObserver(1, p) /\ UNCHANGED before

NotifyRegisterDividend ==
    \E d \in DividendIds : AddDividendObserver(1, d) /\ UNCHANGED before

NotifySetDate == SetDate(1) /\ UNCHANGED before

NotifyAddAssign == AddAssign(1) /\ UNCHANGED before

NotifySubAssign == SubAssign(1) /\ UNCHANGED before

NextNotify ==
    \/ NotifyRegisterPrice \/ NotifyRegisterDividend
    \/ NotifySetDate \/ NotifyAddAssign \/ NotifySubAssign

SpecNotify == InitNotify /\ [][NextNotify]_vars

----------------------------------------------------------------------------
(* Specification of copying: EvaluationDate 1, and EvaluationDate 2 made   *)
(* from it by clone().                                                     *)

InitClone ==
    /\ \E date0 \in Dates :
          /\ \E divs \in {<<>>, <<1>>} :
                ed = [e \in EvaluationDateIds |->
                         IF e = 1
                         THEN [new(date0) EXCEPT !.dividend_observers = divs]
                         ELSE NotConstructed]
          /\ mp = [p \in MarketPriceIds |->
                      [value |-> InitialValue, market_datetime |-> date0,
                       dividend |-> IF p = 1 THEN Some(1) ELSE None]]
    /\ dividends = [d \in DividendIds |->
                       [ratio_dividend |-> IF d = 1 THEN PartialSchedule
                                           ELSE FullPayoutSchedule,
                        loaded |-> TRUE]]
    /\ log = <<>>
    /\ before = [taken |-> FALSE]
    /\ ret = NoDateCall
    /\ NoGenerator
    /\ NoPricing
    /\ NoValues

CloneRegisterPrice ==
    \E e \in EvaluationDateIds, p \in MarketPriceIds :
        AddMarketpriceObserver(e, p) /\ UNCHANGED before

CloneCopy == Clone(1, 2) /\ UNCHANGED before

CloneSetDate == \E e \in EvaluationDateIds : SetDate(e) /\ UNCHANGED before

NextClone == CloneRegisterPrice \/ CloneCopy \/ CloneSetDate

SpecClone == InitClone /\ [][NextClone]_vars

----------------------------------------------------------------------------
(* Properties of the evaluation-date observers *)

DateChanged == ret.op \in DateChangeOps

Registered(e) == Range(ed[e].marketprice_observers)

HasDividend(p) == IsSome(mp[p].dividend)

RatiosDifferFromOne(p) ==
    LET div_ratio == get_dividend_ratio(dividends[Unwrap(mp[p].dividend)])
    IN  \A i \in 1..Len(div_ratio) : div_ratio[i].ratio # Real(1, 1)

(* C5, as claimed: for a registered MarketPrice with a dividend schedule   *)
(* whose ratios all differ from 1, a date change d0 -> d1 followed by a    *)
(* date change back to d0 leaves the value it had at d0.                   *)
C5_RoundTripRestoresValue ==
    [][ \A p \in MarketPriceIds :
          ( /\ ret'.op \in DateChangeOps /\ ret'.outcome = "returned"
            /\ before.taken /\ p \in DOMAIN before.mp
            /\ HasDividend(p) /\ RatiosDifferFromOne(p)
            /\ ed'[1].date = before.date )
          => RealEq(mp'[p].value, before.mp[p].value) ]_vars

(* C5, amended: the same, for a MarketPrice whose market datetime was d0   *)
(* before the round trip.                                                  *)
C5_RoundTripRestoresSyncedValue ==
    [][ \A p \in MarketPriceIds :
          ( /\ ret'.op \in DateChangeOps /\ ret'.outcome = "returned"
            /\ before.taken /\ p \in DOMAIN before.mp
            /\ HasDividend(p) /\ RatiosDifferFromOne(p)
            /\ before.mp[p].market_datetime = before.date
            /\ ed'[1].date = before.date )
          => RealEq(mp'[p].value, before.mp[p].value) ]_vars

C5_Witness ==
    /\ DateChanged /\ before.taken /\ 1 \in DOMAIN before.mp
    /\ mp[1].dividend = Some(1)
    /\ before.date = 2 /\ before.mp[1].value = Real(75, 2)
    /\ ed[1].date = 0 /\ mp[1].value = InitialValue

(* C6, as claimed: after a date change has returned, every registered      *)
(* MarketPrice has a market datetime equal to the EvaluationDate's date.   *)
C6_AllObserversSynced ==
    (DateChanged /\ ret.outcome = "returned") =>
        \A p \in Registered(ret.e) : mp[p].market_datetime = ed[ret.e].date

(* C6, amended: every registered MarketPrice that has a dividend has it.   *)
C6_DividendObserversSynced ==
    (DateChanged /\ ret.outcome = "returned") =>
        \A p \in Registered(ret.e) :
            HasDividend(p) => mp[p].market_datetime = ed[ret.e].date

C6_Witness ==
    /\ ret.op = "sub_assign" /\ ret.outcome = "returned"
    /\ ed[1].marketprice_observers = <<2, 1>>
    /\ mp[1].market_datetime = ed[1].date
    /\ mp[1].value # InitialValue
    /\ mp[2].market_datetime # ed[1].date

(* C7: a date change that returns has stored the date and has called every *)
(* registered observer: the MarketPrice observers in registration order,   *)
(* then the dividend observers in registration order.                      *)
C7_NotifiesAllInOrder ==
    (DateChanged /\ ret.outcome = "returned") =>
        /\ ed[ret.e].date = ret.date
        /\ Len(log) = Len(ed[ret.e].marketprice_observers)
                        + Len(ed[ret.e].dividend_observers)
        /\ \A i \in 1..Len(ed[ret.e].marketprice_observers) :
               log[i] = <<"marketprice", ed[ret.e].marketprice_observers[i]>>
        /\ \A i \in 1..Len(ed[ret.e].dividend_observers) :
               log[Len(ed[ret.e].marketprice_observers) + i]
                   = <<"dividend", ed[ret.e].dividend_observers[i]>>

C7_Witness ==
    /\ ret.op = "set_date" /\ ret.outcome = "returned"
    /\ ed[1].marketprice_observers = <<2, 1>>
    /\ ed[1].dividend_observers = <<2, 1>>
    /\ log = << <<"marketprice", 2>>, <<"marketprice", 1>>,
                <<"dividend", 2>>, <<"dividend", 1>> >>

(* The position of the first dividend observer whose update fails, or 0. *)
FirstFailing(e) ==
    LET failing == {i \in 1..Len(ed[e].dividend_observers) :
                        ~dividend_update_evaluation_date(
                             dividends[ed[e].dividend_observers[i]])}
    IN  IF failing = {} THEN 0
        ELSE CHOOSE i \in failing : \A j \in failing : i <= j

StopsAtFirstFailing ==
    /\ Len(log) = Len(ed[ret.e].marketprice_observers) + FirstFailing(ret.e)
    /\ \A i \in 1..Len(ed[ret.e].marketprice_observers) :
           log[i] = <<"marketprice", ed[ret.e].marketprice_observers[i]>>
    /\ \A i \in 1..FirstFailing(ret.e) :
           log[Len(ed[ret.e].marketprice_observers) + i]
               = <<"dividend", ed[ret.e].dividend_observers[i]>>
    /\ \A p \in Registered(ret.e) :
           HasDividend(p) => mp[p].market_datetime = ret.date

(* C8, as claimed: when an observer's update fails the date change returns *)
(* an error result to its caller, the observers after the failing one are  *)
(* not called and the observers called before it keep their new state.     *)
C8_FailureIsErrorResult ==
    (DateChanged /\ FirstFailing(ret.e) # 0) =>
        /\ ret.outcome = "error"
        /\ StopsAtFirstFailing

(* C8, amended: the date change panics instead of returning an error       *)
(* result; the rest holds, and the new date stays stored.                  *)
C8_FailurePanics ==
    (DateChanged /\ FirstFailing(ret.e) # 0) =>
        /\ ret.outcome = "panicked"
        /\ ed[ret.e].date = ret.date
        /\ StopsAtFirstFailing

C8_Witness ==
    /\ DateChanged /\ ret.outcome = "panicked"
    /\ ed[1].marketprice_observers = <<1>>
    /\ ed[1].dividend_observers = <<2, 1>>
    /\ ~dividends[2].loaded
    /\ log = << <<"marketprice", 1>>, <<"dividend", 2>> >>
    /\ mp[1].market_datetime = ed[1].date
    /\ mp[1].value # InitialValue

(* C9, as claimed: a copy of an EvaluationDate starts with empty observer  *)
(* lists, so that a date change on the copy calls no observer of the       *)
(* original.                                                               *)
C9_CopyHasNoObservers ==
    /\ ret.op = "clone" =>
          /\ ed[2].marketprice_observers = <<>>
          /\ ed[2].dividend_observers = <<>>
    /\ (DateChanged /\ ret.e = 2 /\ ed[2].marketprice_observers = <<>>) =>
          log = <<>>

(* C9, amended: a copy starts with the observer lists of the original, and *)
(* a date change on the copy calls those observers.                        *)
C9_CopySharesObservers ==
    /\ ret.op = "clone" =>
          /\ ed[2].date = ed[1].date
          /\ ed[2].marketprice_observers = ed[1].marketprice_observers
          /\ ed[2].dividend_observers = ed[1].dividend_observers
    /\ (DateChanged /\ ret.e = 2) =>
          /\ Len(log) = Len(ed[2].marketprice_observers)
                          + Len(ed[2].dividend_observers)
          /\ \A p \in Registered(2) :
                 HasDividend(p) => mp[p].market_datetime = ed[2].date

C9_Witness ==
    /\ ret.op = "set_date" /\ ret.e = 2
    /\ ed[1].marketprice_observers = <<1>>
    /\ ed[2].marketprice_observers = <<1>>
    /\ ed[1].dividend_observers = <<1>>
    /\ ed[2].dividend_observers = <<1>>
    /\ ed[2].date # ed[1].date
    /\ mp[1].market_datetime = ed[2].date
    /\ mp[1].value # InitialValue
    /\ Len(log) = 2

----------------------------------------------------------------------------
(* EngineGenerator::calculate *)

MaxGroups == 3

(* Instruments as the Engine of a group sees them: the id, the NPV its     *)
(* pricer computes from the shared read-only market data, and the step at  *)
(* which the Engine fails on it, if any.                                   *)
Priced(id, npv) == [id |-> id, npv |-> npv, error |-> "none"]

Unpriced(id, step) == [id |-> id, npv |-> 0, error |-> step]

(* The groups a group vector is made of: a group of one and a group of two *)
(* instruments, a group that reuses id 1 for another instrument, a group   *)
(* whose pricer cannot be built and a group whose NPV cannot be computed.  *)
GroupSet ==
    {<<Priced(1, 10)>>,
     <<Priced(2, 20), Priced(3, 30)>>,
     <<Priced(1, 11)>>,
     <<Unpriced(4, "initialize_pricers")>>,
     <<Priced(5, 50), Unpriced(6, "calculate")>>}

Groups == 1..Len(instrument_group_vec)

(* The empty FxHashMap, and the map after insert(key, value). *)
EmptyMap == <<>>

insert(map, key, value) ==
    [k \in DOMAIN map \cup {key} |-> IF k = key THEN value ELSE map[k]]

(* Engine: initialize_pricers() builds a pricer for every instrument of    *)
(* the group, calculate() computes every instrument, and                   *)
(* get_calculation_result() is the map from instrument id to result.       *)
initialize_pricers_ok(instrument_group) ==
    \A i \in 1..Len(instrument_group) :
        instrument_group[i].error # "initialize_pricers"

engine_calculate_ok(instrument_group) ==
    \A i \in 1..Len(instrument_group) : instrument_group[i].error # "calculate"

RECURSIVE get_calculation_result(_)
get_calculation_result(instrument_group) ==
    IF instrument_group = <<>> THEN EmptyMap
    ELSE insert(get_calculation_result(Tail(instrument_group)),
                Head(instrument_group).id, Head(instrument_group).npv)

(* A variant of merge_results that makes the group's map the shared map.   *)
merge_results_replacing(mut_res, result) == result

(* The for loop under the lock: mut_res.insert(key, value) for every      *)
(* entry of the group's result.                                            *)
merge_results(mut_res, result) ==
    [k \in DOMAIN mut_res \cup DOMAIN result |->
        IF k \in DOMAIN result THEN result[k] ELSE mut_res[k]]

(* calculate() begins: a fresh shared map, one parallel item per group. *)
CalculateBegin ==
    /\ phase = "configured"
    /\ phase' = "running"
    /\ shared_results' = EmptyMap
    /\ lock' = 0
    /\ saved_error' = 0
    /\ pc' = [g \in Groups |-> "idle"]
    /\ UNCHANGED <<calculation_results, ret, generatorVars, dateVars, pricingVars, valueVars>>

(* Engine::builder, with_instruments, with_parameter_data *)
BuildEngine(g) ==
    /\ phase = "running" /\ pc[g] = "idle"
    /\ pc' = [pc EXCEPT ![g] = "engine"]
    /\ UNCHANGED <<phase, shared_results, lock, saved_error,
                   calculation_results, ret, generatorVars, dateVars, pricingVars, valueVars>>

(* A variant of Fail in which collect() keeps the last Err to reach it. *)
Fail_keeping_last(g) ==
    /\ pc' = [pc EXCEPT ![g] = "failed"]
    /\ saved_error' = g

(* An Err leaves the closure through `?`; collect() keeps the first Err    *)
(* that reaches it.                                                        *)
Fail(g) ==
    /\ pc' = [pc EXCEPT ![g] = "failed"]
    /\ saved_error' = IF saved_error = 0 THEN g ELSE saved_error

(* engine.initialize_pricers()? *)
InitializePricers(g) ==
    /\ phase = "running" /\ pc[g] = "engine"
    /\ IF initialize_pricers_ok(instrument_group_vec[g])
       THEN pc' = [pc EXCEPT ![g] = "pricers"] /\ UNCHANGED saved_error
       ELSE Fail(g)
    /\ UNCHANGED <<phase, shared_results, lock,
                   calculation_results, ret, generatorVars, dateVars, pricingVars, valueVars>>

(* engine.calculate()? *)
EngineCalculate(g) ==
    /\ phase = "running" /\ pc[g] = "pricers"
    /\ IF engine_calculate_ok(instrument_group_vec[g])
       THEN pc' = [pc EXCEPT ![g] = "result"] /\ UNCHANGED saved_error
       ELSE Fail(g)
    /\ UNCHANGED <<phase, shared_results, lock,
                   calculation_results, ret, generatorVars, dateVars, pricingVars, valueVars>>

(* A variant of LockResults that does not wait for the mutex to be free. *)
LockResults_without_waiting(g) ==
    /\ phase = "running" /\ pc[g] = "result"
    /\ lock' = g
    /\ pc' = [pc EXCEPT ![g] = "locked"]
    /\ UNCHANGED <<phase, shared_results, saved_error,
                   calculation_results, ret, generatorVars, dateVars, pricingVars, valueVars>>

(* shared_results.lock().unwrap() *)
LockResults(g) ==
    /\ phase = "running" /\ pc[g] = "result"
    /\ lock = 0
    /\ lock' = g
    /\ pc' = [pc EXCEPT ![g] = "locked"]
    /\ UNCHANGED <<phase, shared_results, saved_error,
                   calculation_results, ret, generatorVars, dateVars, pricingVars, valueVars>>

(* The inserts, Ok(()), and the guard dropped at the end of the closure. *)
MergeResults(g) ==
    /\ phase = "running" /\ pc[g] = "locked"
    /\ shared_results' =
           merge_results(shared_results,
                         get_calculation_result(instrument_group_vec[g]))
    /\ lock' = 0
    /\ pc' = [pc EXCEPT ![g] = "done"]
    /\ UNCHANGED <<phase, saved_error,
                   calculation_results, ret, generatorVars, dateVars, pricingVars, valueVars>>

(* Once an Err has reached collect(), the parallel iterator stops handing  *)
(* out items: a group not yet started may never run.                       *)
SkipGroup(g) ==
    /\ phase = "running" /\ pc[g] = "idle"
    /\ saved_error # 0
    /\ pc' = [pc EXCEPT ![g] = "skipped"]
    /\ UNCHANGED <<phase, shared_results, lock, saved_error,
                   calculation_results, ret, generatorVars, dateVars, pricingVars, valueVars>>

(* A variant of CalculateReturn that adds the shared map to the results    *)
(* the generator already holds.                                            *)
CalculateReturn_keeping_earlier ==
    /\ phase = "running"
    /\ \A g \in Groups : pc[g] \in {"done", "failed", "skipped"}
    /\ phase' = "returned"
    /\ calculation_results' = merge_results(calculation_results, shared_results)
    /\ ret' = [op |-> "calculate", ok |-> saved_error = 0, error |-> saved_error]
    /\ UNCHANGED <<pc, shared_results, lock, saved_error, generatorVars, dateVars, pricingVars, valueVars>>

(* collect() returns: the results are copied and calc_res is returned. *)
CalculateReturn ==
    /\ phase = "running"
    /\ \A g \in Groups : pc[g] \in {"done", "failed", "skipped"}
    /\ phase' = "returned"
    /\ calculation_results' = shared_results
    /\ ret' = [op |-> "calculate", ok |-> saved_error = 0, error |-> saved_error]
    /\ UNCHANGED <<pc, shared_results, lock, saved_error, generatorVars, dateVars, pricingVars, valueVars>>

(* What an earlier calculate() of the generator, on other groups, left in  *)
(* calculation_results.                                                    *)
EarlierResults == insert(insert(EmptyMap, 1, 12), 9, 90)

InitCalculate ==
    /\ instruments = <<>> /\ instrument_categories = <<>>
    /\ instrument_group_vec \in SeqsUpTo(GroupSet, MaxGroups)
    /\ phase = "configured" /\ pc = <<>> /\ shared_results = <<>>
    /\ lock = 0 /\ saved_error = 0
    /\ calculation_results \in {EmptyMap, EarlierResults}
    /\ NoDates
    /\ NoPricing
    /\ ret = NoCall
    /\ NoValues

NextCalculate ==
    \/ CalculateBegin
    \/ \E g \in Groups : BuildEngine(g)
    \/ \E g \in Groups : InitializePricers(g)
    \/ \E g \in Groups : EngineCalculate(g)
    \/ \E g \in Groups : LockResults(g)
    \/ \E g \in Groups : MergeResults(g)
    \/ \E g \in Groups : SkipGroup(g)
    \/ CalculateReturn

SpecCalculate == InitCalculate /\ [][NextCalculate]_vars

----------------------------------------------------------------------------
(* Properties of calculate() *)

GroupIds(g) ==
    {instrument_group_vec[g][i].id : i \in 1..Len(instrument_group_vec[g])}

DistinctIds ==
    /\ \A g, h \in Groups : g # h => GroupIds(g) \cap GroupIds(h) = {}
    /\ \A g \in Groups :
           Cardinality(GroupIds(g)) = Len(instrument_group_vec[g])

GroupOk(g) ==
    /\ initialize_pricers_ok(instrument_group_vec[g])
    /\ engine_calculate_ok(instrument_group_vec[g])

(* The groups computed one after another, in list order, by the same       *)
(* closure: the first Err ends the iteration.                              *)
RECURSIVE SequentialResults(_, _)
SequentialResults(g, results) ==
    IF g > Len(instrument_group_vec) \/ ~GroupOk(g) THEN results
    ELSE SequentialResults(g + 1,
             merge_results(results,
                           get_calculation_result(instrument_group_vec[g])))

Attempted(g) == pc[g] \in {"done", "failed"}

(* The ids no other group prices. *)
OwnIds(g) ==
    {id \in GroupIds(g) : \A h \in Groups \ {g} : id \notin GroupIds(h)}

C12_LockOnlyDuringMerge ==
    phase = "running" =>
        /\ lock # 0 => (lock \in Groups /\ pc[lock] = "locked")
        /\ \A g \in Groups : pc[g] = "locked" => lock = g
        /\ Cardinality({g \in Groups : pc[g] = "locked"}) <= 1

(* One worker merges while another, its results ready, waits for the lock. *)
C12_Witness ==
    /\ phase = "running"
    /\ \E g, h \in Groups :
           g # h /\ lock = g /\ pc[g] = "locked" /\ pc[h] = "result"

----------------------------------------------------------------------------
(* MatchParameter (pricing_engines/match_parameter.rs): the curve ids an   *)
(* instrument needs, resolved from six tables.                             *)
(*                                                                         *)
(* A StaticId is a number; StaticId::default() is 0.  A Result is a record *)
(* with its ok flag and either the value or what the message names.        *)

MaxUnderlyings == 2

StaticId_default == 0

UnderlyingIds == {1, 2}

RateIndexId == 20

IssuerId == 30

KtbfBorrowingCurveId == 40

InstrumentId == 90

(* FxCode::new *)
FxCode(currency1, currency2) == <<currency1, currency2>>

Ok(v) == [ok |-> TRUE, value |-> v]

Err(names_instrument, key) ==
    [ok |-> FALSE, names_instrument |-> names_instrument, key |-> key]

(* The attributes the getters of InstrumentTrait hand out; an attribute a  *)
(* variant does not have is None (its getter is the trait's default).      *)
Attributes(kind, currency, underlying_ids) ==
    [kind |-> kind, id |-> InstrumentId, currency |-> currency,
     underlying_ids |-> underlying_ids,
     issuer |-> None, rate_index |-> None, swap_type |-> None,
     fixed_leg_currency |-> None, floating_leg_currency |-> None,
     settlement |-> None, underlying_currency |-> None,
     fxfutres_und_fxcode |-> None, floating_to_fixed_fxcode |-> None,
     bond_futures_borrowing_curve_ids |-> <<>>]

NonEmptyUnderlyings == SeqsUpTo(UnderlyingIds, MaxUnderlyings) \ {<<>>}

Bonds ==
    {[Attributes("Bond", c, <<>>) EXCEPT
          !.issuer = Some(<<IssuerId, "Government", "AAA">>),
          !.rate_index = ri] :
     c \in Currencies, ri \in {None, Some(RateIndexId)}}

PlainSwaps ==
    {[Attributes("PlainSwap", "KRW", <<>>) EXCEPT
          !.rate_index = ri,
          !.swap_type = Some(IF fl = "KRW" THEN "IRS" ELSE "CRS"),
          !.fixed_leg_currency = Some("KRW"),
          !.floating_leg_currency = Some(fl),
          !.floating_to_fixed_fxcode =
              Some(IF fl = "KRW" THEN None ELSE Some(FxCode(fl, "KRW")))] :
     ri \in {None, Some(RateIndexId)}, fl \in Currencies}

VanillaOptions ==
    {[Attributes("VanillaOption", c, <<1>>) EXCEPT
          !.settlement = Some(st),
          !.underlying_currency = Some("KRW")] :
     c \in Currencies, st \in {"Settled", "NotSettled"}}

FuturesSet ==
    {Attributes("Futures", "KRW", und) : und \in NonEmptyUnderlyings}

FxFuturesSet ==
    {[Attributes("FxFutures", "KRW", <<>>) EXCEPT
          !.underlying_currency = Some("USD"),
          !.fxfutres_und_fxcode = Some(FxCode("USD", "KRW"))]}

KTBFs ==
    {[Attributes("KTBF", "KRW", <<>>) EXCEPT
          !.bond_futures_borrowing_curve_ids = <<KtbfBorrowingCurveId>>]}

OtherInstruments ==
    {Attributes("BondFutures", "KRW", <<>>),
     [Attributes("Stock", "KRW", <<>>) EXCEPT !.id = 1],
     Attributes("Cash", "USD", <<>>)}

Instrument ==
    Bonds \cup PlainSwaps \cup VanillaOptions \cup FuturesSet
    \cup FxFuturesSet \cup KTBFs \cup OtherInstruments

(* The key of bond_discount_curve_map for a bond. *)
BondKey(currency) == <<IssuerId, "Government", "AAA", currency>>

CurrencyIndex(c) == IF c = "KRW" THEN 1 ELSE 2

(* The tables, the keys a table may hold and the curve id it holds for a  *)
(* key: each key of each table has a curve id of its own.                  *)
TableNames ==
    {"collateral_curve_map", "borrowing_curve_map", "bond_discount_curve_map",
     "rate_index_forward_curve_map", "crs_curve_map", "funding_cost_map"}

TableKeys(table) ==
    CASE table = "collateral_curve_map" -> UnderlyingIds
      [] table = "borrowing_curve_map" ->
             UnderlyingIds \cup {KtbfBorrowingCurveId}
      [] table = "bond_discount_curve_map" ->
             {BondKey(c) : c \in Currencies}
      [] table = "rate_index_forward_curve_map" -> {RateIndexId}
      [] table = "crs_curve_map" -> Currencies
      [] table = "funding_cost_map" -> Currencies

CurveId(table, k) ==
    CASE table = "collateral_curve_map" -> 100 + k
      [] table = "borrowing_curve_map" -> 200 + k
      [] table = "bond_discount_curve_map" -> 300 + CurrencyIndex(k[4])
      [] table = "rate_index_forward_curve_map" -> 400 + k
      [] table = "crs_curve_map" -> 500 + CurrencyIndex(k)
      [] table = "funding_cost_map" -> 600 + CurrencyIndex(k)

(* A table holding the keys D. *)
Table(table, D) == [k \in D |-> CurveId(table, k)]

Tables(table) == {Table(table, D) : D \in SUBSET TableKeys(table)}

MatchParameter ==
    [collateral_curve_map : Tables("collateral_curve_map"),
     borrowing_curve_map : Tables("borrowing_curve_map"),
     bond_discount_curve_map : Tables("bond_discount_curve_map"),
     rate_index_forward_curve_map : Tables("rate_index_forward_curve_map"),
     crs_curve_map : Tables("crs_curve_map"),
     funding_cost_map : Tables("funding_cost_map")]

(* FxHashMap::get *)
Get(map, key) == IF key \in DOMAIN map THEN Some(map[key]) ELSE None

(* A variant of get_crs_curve_id that keys a swap by its floating leg. *)
get_crs_curve_id_by_floating_leg(self, instrument) ==
    CASE instrument.kind = "PlainSwap" ->
             IF Unwrap(instrument.swap_type) = "IRS"
             THEN Ok(StaticId_default)
             ELSE LET currency == Unwrap(instrument.floating_leg_currency)
                      res == Get(self.crs_curve_map, currency)
                  IN  IF IsSome(res) THEN Ok(Unwrap(res))
                      ELSE Err(TRUE, Some(currency))
      [] instrument.kind = "FxFutures" ->
             LET res == Get(self.crs_curve_map, instrument.currency)
             IN  IF IsSome(res) THEN Ok(Unwrap(res))
                 ELSE Err(TRUE, Some(instrument.currency))
      [] OTHER -> Ok(StaticId_default)

(* get_crs_curve_id *)
get_crs_curve_id(self, instrument) ==
    CASE instrument.kind = "PlainSwap" ->
             IF ~IsSome(instrument.swap_type)
             THEN Err(FALSE, None)
             ELSE IF Unwrap(instrument.swap_type) = "IRS"
             THEN Ok(StaticId_default)
             ELSE IF ~IsSome(instrument.fixed_leg_currency)
             THEN Err(FALSE, None)
             ELSE LET fixed_currency == Unwrap(instrument.fixed_leg_currency)
                      res == Get(self.crs_curve_map, fixed_currency)
                  IN  IF IsSome(res) THEN Ok(Unwrap(res))
                      ELSE Err(TRUE, Some(fixed_currency))
      [] instrument.kind = "FxFutures" ->
             LET currency == instrument.currency
                 res == Get(self.crs_curve_map, currency)
             IN  IF IsSome(res) THEN Ok(Unwrap(res))
                 ELSE Err(TRUE, Some(currency))
      [] OTHER -> Ok(StaticId_default)

(* get_floating_crs_curve_id *)
get_floating_crs_curve_id(self, instrument) ==
    CASE instrument.kind = "PlainSwap" ->
             IF ~IsSome(instrument.swap_type)
             THEN Err(FALSE, None)
             ELSE IF Unwrap(instrument.swap_type) = "IRS"
             THEN Ok(StaticId_default)
             ELSE IF ~IsSome(instrument.floating_leg_currency)
             THEN Err(FALSE, None)
             ELSE LET floating_currency ==
                          Unwrap(instrument.floating_leg_currency)
                      res == Get(self.crs_curve_map, floating_currency)
                  IN  IF IsSome(res) THEN Ok(Unwrap(res))
                      ELSE Err(TRUE, Some(floating_currency))
      [] instrument.kind = "FxFutures" ->
             IF ~IsSome(instrument.underlying_currency)
             THEN Err(FALSE, None)
             ELSE LET underlying_currency ==
                          Unwrap(instrument.underlying_currency)
                      res == Get(self.crs_curve_map, underlying_currency)
                  IN  IF IsSome(res) THEN Ok(Unwrap(res))
                      ELSE Err(TRUE, Some(underlying_currency))
      [] OTHER -> Ok(StaticId_default)

(* A variant of the Bond arm in which a missing tuple is an error. *)
bond_discount_curve_id_mandatory(self, instrument) ==
    LET issuer == Unwrap(instrument.issuer)
        curve_id == Get(self.bond_discount_curve_map,
                        <<issuer[1], issuer[2], issuer[3],
                          instrument.currency>>)
    IN  IF IsSome(curve_id) THEN Ok(Unwrap(curve_id))
        ELSE Err(TRUE, Some(instrument.currency))

(* get_discount_curve_id, the Bond arm *)
bond_discount_curve_id(self, instrument) ==
    IF ~IsSome(instrument.issuer)
    THEN Err(TRUE, None)
    ELSE LET issuer == Unwrap(instrument.issuer)
             curve_id == Get(self.bond_discount_curve_map,
                             <<issuer[1], issuer[2], issuer[3],
                               instrument.currency>>)
         IN  IF IsSome(curve_id) THEN Ok(Unwrap(curve_id))
             ELSE Ok(StaticId_default)

(* A variant of the PlainSwap arm in which an unmapped index gets the     *)
(* sentinel.                                                               *)
swap_discount_curve_id_defaulting(self, instrument) ==
    LET rate_index == instrument.rate_index
    IN  IF ~IsSome(rate_index) THEN Ok(StaticId_default)
        ELSE LET curve_id == Get(self.rate_index_forward_curve_map,
                                 Unwrap(rate_index))
             IN  IF IsSome(curve_id) THEN Ok(Unwrap(curve_id))
                 ELSE Ok(StaticId_default)

(* get_discount_curve_id, the PlainSwap arm *)
swap_discount_curve_id(self, instrument) ==
    LET rate_index == instrument.rate_index
    IN  IF ~IsSome(rate_index) THEN Ok(StaticId_default)
        ELSE LET curve_id == Get(self.rate_index_forward_curve_map,
                                 Unwrap(rate_index))
             IN  IF IsSome(curve_id) THEN Ok(Unwrap(curve_id))
                 ELSE Err(FALSE, rate_index)

(* A variant of the VanillaOption arm in which an unfunded currency gets  *)
(* the sentinel.                                                           *)
option_discount_curve_id_defaulting(self, instrument) ==
    IF Unwrap(instrument.settlement) = "Settled"
    THEN Ok(StaticId_default)
    ELSE LET curve_id == Get(self.funding_cost_map, instrument.currency)
         IN  IF IsSome(curve_id) THEN Ok(Unwrap(curve_id))
             ELSE Ok(StaticId_default)

(* A variant of the VanillaOption arm that consults the funding table     *)
(* before it looks at the settlement type.                                 *)
option_discount_curve_id_funding_first(self, instrument) ==
    LET curve_id == Get(self.funding_cost_map, instrument.currency)
    IN  IF ~IsSome(curve_id) THEN Err(TRUE, Some(instrument.currency))
        ELSE IF Unwrap(instrument.settlement) = "Settled"
        THEN Ok(StaticId_default)
        ELSE Ok(Unwrap(curve_id))

(* get_discount_curve_id, the VanillaOption arm *)
option_discount_curve_id(self, instrument) ==
    IF ~IsSome(instrument.settlement)
    THEN Err(FALSE, None)
    ELSE IF Unwrap(instrument.settlement) = "Settled"
    THEN Ok(StaticId_default)
    ELSE LET curve_id == Get(self.funding_cost_map, instrument.currency)
         IN  IF IsSome(curve_id) THEN Ok(Unwrap(curve_id))
             ELSE Err(TRUE, Some(instrument.currency))

(* A variant of get_discount_curve_id that funds every other instrument   *)
(* by its currency.                                                        *)
get_discount_curve_id_funding_all(self, instrument) ==
    CASE instrument.kind = "Bond" ->
             bond_discount_curve_id(self, instrument)
      [] instrument.kind = "PlainSwap" ->
             swap_discount_curve_id(self, instrument)
      [] instrument.kind = "VanillaOption" ->
             option_discount_curve_id(self, instrument)
      [] OTHER ->
             LET curve_id == Get(self.funding_cost_map, instrument.currency)
             IN  IF IsSome(curve_id) THEN Ok(Unwrap(curve_id))
                 ELSE Ok(StaticId_default)

(* get_discount_curve_id *)
get_discount_curve_id(self, instrument) ==
    CASE instrument.kind = "Bond" ->
             bond_discount_curve_id(self, instrument)
      [] instrument.kind = "PlainSwap" ->
             swap_discount_curve_id(self, instrument)
      [] instrument.kind = "VanillaOption" ->
             option_discount_curve_id(self, instrument)
      [] instrument.kind \in {"Futures", "BondFutures", "KTBF", "FxFutures",
                              "Stock", "Cash"} ->
             Ok(StaticId_default)

(* A variant of the loop that passes over an id without entry. *)
RECURSIVE curve_ids_skipping(_, _, _)
curve_ids_skipping(map, und_ids, res) ==
    IF und_ids = <<>> THEN Ok(res)
    ELSE LET curve_id == Get(map, Head(und_ids))
         IN  IF IsSome(curve_id)
             THEN curve_ids_skipping(map, Tail(und_ids),
                                     Append(res, Unwrap(curve_id)))
             ELSE curve_ids_skipping(map, Tail(und_ids), res)

(* The loop of get_collateral_curve_ids and get_borrowing_curve_ids: one   *)
(* curve id pushed per id, an Err returned at the first id without entry.  *)
RECURSIVE curve_ids(_, _, _)
curve_ids(map, und_ids, res) ==
    IF und_ids = <<>> THEN Ok(res)
    ELSE LET curve_id == Get(map, Head(und_ids))
         IN  IF IsSome(curve_id)
             THEN curve_ids(map, Tail(und_ids), Append(res, Unwrap(curve_id)))
             ELSE Err(TRUE, Some(Head(und_ids)))

(* get_collateral_curve_ids *)
get_collateral_curve_ids(self, instrument) ==
    curve_ids(self.collateral_curve_map, instrument.underlying_ids, <<>>)

(* get_borrowing_curve_ids *)
get_borrowing_curve_ids(self, instrument) ==
    LET bond_futures_collateral_ids ==
            instrument.bond_futures_borrowing_curve_ids
        und_ids == IF bond_futures_collateral_ids # <<>>
                   THEN instrument.underlying_ids \o bond_futures_collateral_ids
                   ELSE instrument.underlying_ids
    IN  curve_ids(self.borrowing_curve_map, und_ids, <<>>)

(* get_rate_index_curve_id *)
get_rate_index_curve_id(self, instrument) ==
    IF instrument.kind \in {"Bond", "PlainSwap"}
    THEN LET rate_index == instrument.rate_index
         IN  IF ~IsSome(rate_index) THEN Ok(StaticId_default)
             ELSE LET res == Get(self.rate_index_forward_curve_map,
                                 Unwrap(rate_index))
                  IN  IF IsSome(res) THEN Ok(Unwrap(res))
                      ELSE Err(FALSE, rate_index)
    ELSE Ok(StaticId_default)

(* The calls, each on the instrument and the tables at hand. *)
Resolve(op, result) ==
    /\ ret' = [op |-> op, result |-> result]
    /\ UNCHANGED <<valueVars, pricingVars, generatorVars, dateVars, calcVars>>

GetCrsCurveId ==
    Resolve("get_crs_curve_id",
            get_crs_curve_id(match_parameter, instrument_arg))

GetFloatingCrsCurveId ==
    Resolve("get_floating_crs_curve_id",
            get_floating_crs_curve_id(match_parameter, instrument_arg))

GetDiscountCurveId ==
    Resolve("get_discount_curve_id",
            get_discount_curve_id(match_parameter, instrument_arg))

GetCollateralCurveIds ==
    Resolve("get_collateral_curve_ids",
            get_collateral_curve_ids(match_parameter, instrument_arg))

GetBorrowingCurveIds ==
    Resolve("get_borrowing_curve_ids",
            get_borrowing_curve_ids(match_parameter, instrument_arg))

GetRateIndexCurveId ==
    Resolve("get_rate_index_curve_id",
            get_rate_index_curve_id(match_parameter, instrument_arg))

(* Specification of the resolver: one instrument, one MatchParameter, any *)
(* resolutions.                                                            *)
InitMatch ==
    /\ instrument_arg \in Instrument
    /\ match_parameter \in MatchParameter
    /\ factory = <<>>
    /\ ret = NoCall
    /\ NoGenerator
    /\ NoDates
    /\ NoValues

NextMatch ==
    \/ GetCrsCurveId
    \/ GetFloatingCrsCurveId
    \/ GetDiscountCurveId
    \/ GetCollateralCurveIds
    \/ GetBorrowingCurveIds
    \/ GetRateIndexCurveId

SpecMatch == InitMatch /\ [][NextMatch]_vars

----------------------------------------------------------------------------
(* Properties of the resolver *)

Called(op) == ret.op = op

Kind(k) == instrument_arg.kind = k

(* What a table lookup that must succeed gives: the mapped id, or an Err. *)
Mandatory(result, map, key) ==
    IF key \in DOMAIN map
    THEN result = Ok(map[key])
    ELSE ~result.ok

NotSettledOption ==
    Kind("VanillaOption") /\ instrument_arg.settlement = Some("NotSettled")

SwapWithIndex == Kind("PlainSwap") /\ IsSome(instrument_arg.rate_index)

(* C13: get_discount_curve_id gives the sentinel, never an error, for      *)
(* every Futures, BondFutures, KTBF, FxFutures, Stock and Cash, whatever   *)
(* the tables hold.                                                        *)
C13_NoDiscountCurveForFuturesStockCash ==
    (/\ Called("get_discount_curve_id")
     /\ instrument_arg.kind \in {"Futures", "BondFutures", "KTBF",
                                 "FxFutures", "Stock", "Cash"})
        => ret.result = Ok(StaticId_default)

(* A futures whose currency has a funding curve and whose underlyings have *)
(* collateral curves still gets the sentinel.                              *)
C13_Witness ==
    /\ Called("get_discount_curve_id") /\ Kind("Futures")
    /\ instrument_arg.currency \in DOMAIN match_parameter.funding_cost_map
    /\ DOMAIN match_parameter.collateral_curve_map = UnderlyingIds
    /\ ret.result = Ok(StaticId_default)

(* C14, as claimed: for a Bond, a PlainSwap and a VanillaOption that is    *)
(* not daily-settled, get_discount_curve_id never gives the sentinel: it   *)
(* gives a real id or an error.                                            *)
C14_NeverSentinelForBondSwapOption ==
    (/\ Called("get_discount_curve_id")
     /\ (Kind("Bond") \/ Kind("PlainSwap") \/ NotSettledOption)
     /\ ret.result.ok)
        => ret.result.value # StaticId_default

(* C14, amended: for a PlainSwap with a floating-rate index and for a      *)
(* VanillaOption that is not daily-settled it gives an id held by the      *)
(* table or an error, never the sentinel; a Bond whose tuple has no entry  *)
(* and a PlainSwap without index get the sentinel.                         *)
C14_SentinelOnlyForUnmappedBondAndFixedSwap ==
    Called("get_discount_curve_id") =>
        /\ (SwapWithIndex /\ ret.result.ok) =>
               /\ ret.result.value # StaticId_default
               /\ \E k \in DOMAIN match_parameter.rate_index_forward_curve_map :
                      ret.result.value =
                          match_parameter.rate_index_forward_curve_map[k]
        /\ (NotSettledOption /\ ret.result.ok) =>
               /\ ret.result.value # StaticId_default
               /\ \E k \in DOMAIN match_parameter.funding_cost_map :
                      ret.result.value = match_parameter.funding_cost_map[k]
        /\ Kind("Bond") =>
               /\ ret.result.ok
               /\ (ret.result.value = StaticId_default) <=>
                      (BondKey(instrument_arg.currency) \notin
                           DOMAIN match_parameter.bond_discount_curve_map)
        /\ (Kind("PlainSwap") /\ ~SwapWithIndex) =>
               ret.result = Ok(StaticId_default)

C14_Witness ==
    /\ Called("get_discount_curve_id") /\ NotSettledOption
    /\ instrument_arg.currency = "USD"
    /\ DOMAIN match_parameter.funding_cost_map = {"KRW"}
    /\ ~ret.result.ok

(* C15: for a Bond, get_discount_curve_id gives the id mapped to the       *)
(* bond's (issuer id, issuer type, credit rating, currency), and the       *)
(* sentinel as a success when the tuple has no entry.                      *)
C15_BondDiscountByTupleOrSentinel ==
    (Called("get_discount_curve_id") /\ Kind("Bond")) =>
        LET key == BondKey(instrument_arg.currency)
            map == match_parameter.bond_discount_curve_map
        IN  ret.result = IF key \in DOMAIN map THEN Ok(map[key])
                         ELSE Ok(StaticId_default)

(* A bond whose tuple is missing while the same issuer's tuple in the      *)
(* other currency is mapped.                                               *)
C15_Witness ==
    /\ Called("get_discount_curve_id") /\ Kind("Bond")
    /\ instrument_arg.currency = "USD"
    /\ DOMAIN match_parameter.bond_discount_curve_map = {BondKey("KRW")}
    /\ ret.result = Ok(StaticId_default)

(* C16: for a PlainSwap with a floating-rate index, get_discount_curve_id  *)
(* gives the forward curve id of that index, the id                        *)
(* get_rate_index_curve_id gives for the swap, and an error when the index *)
(* has no entry.                                                           *)
C16_SwapDiscountIsForwardCurve ==
    (Called("get_discount_curve_id") /\ SwapWithIndex) =>
        /\ Mandatory(ret.result, match_parameter.rate_index_forward_curve_map,
                     Unwrap(instrument_arg.rate_index))
        /\ LET other == get_rate_index_curve_id(match_parameter,
                                                instrument_arg)
           IN  /\ ret.result.ok = other.ok
               /\ ret.result.ok => ret.result.value = other.value

C16_Witness ==
    /\ Called("get_discount_curve_id") /\ SwapWithIndex
    /\ RateIndexId \in DOMAIN match_parameter.rate_index_forward_curve_map
    /\ ret.result.ok
    /\ ret.result.value =
           match_parameter.rate_index_forward_curve_map[RateIndexId]

(* C17: for a VanillaOption, get_discount_curve_id gives the sentinel when *)
(* the option is daily-settled, whatever the funding table holds, and      *)
(* otherwise the funding curve id of the option's currency, or an error    *)
(* when that currency has no entry.                                        *)
C17_OptionDiscountByFundingUnlessSettled ==
    (Called("get_discount_curve_id") /\ Kind("VanillaOption")) =>
        IF instrument_arg.settlement = Some("Settled")
        THEN ret.result = Ok(StaticId_default)
        ELSE Mandatory(ret.result, match_parameter.funding_cost_map,
                       instrument_arg.currency)

(* A daily-settled option whose currency has no funding curve. *)
C17_Witness ==
    /\ Called("get_discount_curve_id") /\ Kind("VanillaOption")
    /\ instrument_arg.settlement = Some("Settled")
    /\ instrument_arg.currency \notin DOMAIN match_parameter.funding_cost_map
    /\ ret.result = Ok(StaticId_default)

(* What resolving the ids of a list one by one must give: the mapped ids   *)
(* in the order of the list, or an Err naming the first id without entry.  *)
OnePerId(result, map, ids) ==
    IF \A i \in 1..Len(ids) : ids[i] \in DOMAIN map
    THEN result = Ok([i \in 1..Len(ids) |-> map[ids[i]]])
    ELSE /\ ~result.ok
         /\ \E i \in 1..Len(ids) :
                /\ ids[i] \notin DOMAIN map
                /\ \A j \in 1..(i - 1) : ids[j] \in DOMAIN map
                /\ result.key = Some(ids[i])

(* C18, as claimed: get_collateral_curve_ids and get_borrowing_curve_ids   *)
(* give one curve id per underlying id of the instrument, in the order of  *)
(* the underlyings, and an error as soon as an underlying has no entry.    *)
C18_OneCurvePerUnderlying ==
    /\ Called("get_collateral_curve_ids") =>
           OnePerId(ret.result, match_parameter.collateral_curve_map,
                    instrument_arg.underlying_ids)
    /\ Called("get_borrowing_curve_ids") =>
           OnePerId(ret.result, match_parameter.borrowing_curve_map,
                    instrument_arg.underlying_ids)

(* C18, amended: get_collateral_curve_ids does; get_borrowing_curve_ids    *)
(* gives one curve id per underlying id followed by one per bond-futures   *)
(* borrowing curve id of the instrument (a KTBF has one), and an error as  *)
(* soon as one of these ids has no entry.                                  *)
C18_OneCurvePerUnderlyingAndBorrowingId ==
    /\ Called("get_collateral_curve_ids") =>
           OnePerId(ret.result, match_parameter.collateral_curve_map,
                    instrument_arg.underlying_ids)
    /\ Called("get_borrowing_curve_ids") =>
           OnePerId(ret.result, match_parameter.borrowing_curve_map,
                    instrument_arg.underlying_ids \o
                        instrument_arg.bond_futures_borrowing_curve_ids)

(* Two underlyings listed against the order of their ids, the second of    *)
(* the list without collateral curve.                                      *)
C18_Witness ==
    /\ Called("get_collateral_curve_ids")
    /\ instrument_arg.underlying_ids = <<2, 1>>
    /\ DOMAIN match_parameter.collateral_curve_map = {2}
    /\ ~ret.result.ok /\ ret.result.key = Some(1)

IsIRS == Kind("PlainSwap") /\ instrument_arg.swap_type = Some("IRS")

IsCRS == Kind("PlainSwap") /\ instrument_arg.swap_type = Some("CRS")

(* C19: get_crs_curve_id and get_floating_crs_curve_id give the sentinel   *)
(* for an IRS and for every instrument that is neither a PlainSwap nor an  *)
(* FxFutures; for a cross-currency swap the curve of the fixed-leg and of  *)
(* the floating-leg currency, for an FxFutures the curve of the futures    *)
(* currency and of the underlying currency, and an error when that         *)
(* currency is missing from crs_curve_map.                                 *)
C19_CrsCurveByLegCurrency ==
    /\ (/\ Called("get_crs_curve_id") \/ Called("get_floating_crs_curve_id")
        /\ IsIRS \/ ~(Kind("PlainSwap") \/ Kind("FxFutures"))) =>
           ret.result = Ok(StaticId_default)
    /\ (Called("get_crs_curve_id") /\ IsCRS) =>
           Mandatory(ret.result, match_parameter.crs_curve_map,
                     Unwrap(instrument_arg.fixed_leg_currency))
    /\ (Called("get_floating_crs_curve_id") /\ IsCRS) =>
           Mandatory(ret.result, match_parameter.crs_curve_map,
                     Unwrap(instrument_arg.floating_leg_currency))
    /\ (Called("get_crs_curve_id") /\ Kind("FxFutures")) =>
           Mandatory(ret.result, match_parameter.crs_curve_map,
                     instrument_arg.currency)
    /\ (Called("get_floating_crs_curve_id") /\ Kind("FxFutures")) =>
           Mandatory(ret.result, match_parameter.crs_curve_map,
                     Unwrap(instrument_arg.underlying_currency))

(* A cross-currency swap whose fixed-leg currency alone has a curve. *)
C19_Witness ==
    /\ Called("get_crs_curve_id") /\ IsCRS
    /\ instrument_arg.fixed_leg_currency = Some("KRW")
    /\ instrument_arg.floating_leg_currency = Some("USD")
    /\ DOMAIN match_parameter.crs_curve_map = {"KRW"}
    /\ ret.result = Ok(match_parameter.crs_curve_map["KRW"])

----------------------------------------------------------------------------
(* PricerFactory (pricing_engines/pricer_factory.rs): the pricer of an     *)
(* instrument, built from the market objects of the factory's maps.  A map *)
(* is the set of its keys; a pricer is its variant and the keys of the     *)
(* objects it holds.                                                       *)

KrwGovCurveId == 700

Built(variant, parts) ==
    [outcome |-> "ok", pricer |-> Some([variant |-> variant, parts |-> parts]),
     names_instrument |-> FALSE, key |-> None]

Failed(names_instrument, key) ==
    [outcome |-> "err", pricer |-> None,
     names_instrument |-> names_instrument, key |-> key]

Panicked ==
    [outcome |-> "panic", pricer |-> None,
     names_instrument |-> FALSE, key |-> None]

(* An Err of the resolver leaving the factory through `?`. *)
Propagated(result) == Failed(result.names_instrument, result.key)

(* get_futures_pricer *)
get_futures_pricer(self, instrument) ==
    LET underlying_ids == instrument.underlying_ids
        collateral == get_collateral_curve_ids(self.match_parameter, instrument)
        borrowing == get_borrowing_curve_ids(self.match_parameter, instrument)
    IN  IF underlying_ids = <<>> THEN Panicked
        ELSE IF underlying_ids[1] \notin self.equities THEN Panicked
        ELSE IF ~collateral.ok THEN Propagated(collateral)
        ELSE IF collateral.value = <<>> THEN Panicked
        ELSE IF ~borrowing.ok THEN Propagated(borrowing)
        ELSE IF borrowing.value = <<>> THEN Panicked
        ELSE IF collateral.value[1] \notin self.zero_curves
        THEN Failed(TRUE, Some(collateral.value[1]))
        ELSE IF borrowing.value[1] \notin self.zero_curves
        THEN Failed(TRUE, Some(borrowing.value[1]))
        ELSE Built("FuturesPricer",
                   [equity |-> underlying_ids[1],
                    collateral_curve |-> collateral.value[1],
                    borrowing_curve |-> borrowing.value[1]])

(* get_vanilla_option_pricer with a silent default: an absent quanto is    *)
(* taken as no quanto.                                                     *)
get_vanilla_option_pricer_silent_quanto(self, instrument) ==
    LET und == instrument.underlying_ids
        discount == get_discount_curve_id(self.match_parameter, instrument)
        collateral == get_collateral_curve_ids(self.match_parameter, instrument)
        borrowing == get_borrowing_curve_ids(self.match_parameter, instrument)
        curr == instrument.currency
    IN  IF und = <<>> THEN Panicked
        ELSE IF und[1] \notin self.equities THEN Failed(TRUE, Some(und[1]))
        ELSE IF und[1] \notin self.underlying_volatilities
        THEN Failed(TRUE, Some(und[1]))
        ELSE IF ~discount.ok THEN Propagated(discount)
        ELSE IF discount.value \notin self.zero_curves
        THEN Failed(TRUE, Some(discount.value))
        ELSE IF ~collateral.ok THEN Propagated(collateral)
        ELSE IF collateral.value = <<>> THEN Panicked
        ELSE IF collateral.value[1] \notin self.zero_curves
        THEN Failed(TRUE, Some(collateral.value[1]))
        ELSE IF ~borrowing.ok THEN Propagated(borrowing)
        ELSE IF borrowing.value = <<>> THEN Panicked
        ELSE IF borrowing.value[1] \notin self.zero_curves
        THEN Failed(TRUE, Some(borrowing.value[1]))
        ELSE IF ~IsSome(instrument.underlying_currency)
        THEN Failed(FALSE, None)
        ELSE LET und_curr == Unwrap(instrument.underlying_currency)
                 key == <<und[1], FxCode(und_curr, curr)>>
             IN  IF self.calculation_method # "Analytic"
                 THEN Failed(FALSE, None)
                 ELSE Built("OptionAnalyticPricer",
                            [equity |-> und[1],
                             collateral_curve |-> collateral.value[1],
                             borrowing_curve |-> borrowing.value[1],
                             discount_curve |-> discount.value,
                             volatility |-> und[1],
                             quanto |-> IF und_curr # curr
                                           /\ key \in self.quantos
                                        THEN Some(key)
                                        ELSE None])

(* get_vanilla_option_pricer *)
get_vanilla_option_pricer(self, instrument) ==
    LET und == instrument.underlying_ids
        discount == get_discount_curve_id(self.match_parameter, instrument)
        collateral == get_collateral_curve_ids(self.match_parameter, instrument)
        borrowing == get_borrowing_curve_ids(self.match_parameter, instrument)
        curr == instrument.currency
    IN  IF und = <<>> THEN Panicked
        ELSE IF und[1] \notin self.equities THEN Failed(TRUE, Some(und[1]))
        ELSE IF und[1] \notin self.underlying_volatilities
        THEN Failed(TRUE, Some(und[1]))
        ELSE IF ~discount.ok THEN Propagated(discount)
        ELSE IF discount.value \notin self.zero_curves
        THEN Failed(TRUE, Some(discount.value))
        ELSE IF ~collateral.ok THEN Propagated(collateral)
        ELSE IF collateral.value = <<>> THEN Panicked
        ELSE IF collateral.value[1] \notin self.zero_curves
        THEN Failed(TRUE, Some(collateral.value[1]))
        ELSE IF ~borrowing.ok THEN Propagated(borrowing)
        ELSE IF borrowing.value = <<>> THEN Panicked
        ELSE IF borrowing.value[1] \notin self.zero_curves
        THEN Failed(TRUE, Some(borrowing.value[1]))
        ELSE IF ~IsSome(instrument.underlying_currency)
        THEN Failed(FALSE, None)
        ELSE LET und_curr == Unwrap(instrument.underlying_currency)
                 key == <<und[1], FxCode(und_curr, curr)>>
             IN  IF und_curr # curr /\ key \notin self.quantos
                 THEN Failed(TRUE, Some(key))
                 ELSE IF self.calculation_method # "Analytic"
                 THEN Failed(FALSE, None)
                 ELSE Built("OptionAnalyticPricer",
                            [equity |-> und[1],
                             collateral_curve |-> collateral.value[1],
                             borrowing_curve |-> borrowing.value[1],
                             discount_curve |-> discount.value,
                             volatility |-> und[1],
                             quanto |-> IF und_curr # curr THEN Some(key)
                                        ELSE None])

(* The forward curve and the past fixings of a floating-rate bond or swap: *)
(* both None when the instrument has no rate index.                        *)
floating_rate_data(self, instrument) ==
    LET rate_index == instrument.rate_index
        forward == get_rate_index_curve_id(self.match_parameter, instrument)
    IN  IF ~IsSome(rate_index)
        THEN [ok |-> TRUE, forward_curve |-> None, past_fixing_data |-> None]
        ELSE IF ~forward.ok
        THEN [ok |-> FALSE, error |-> Propagated(forward)]
        ELSE IF forward.value \notin self.zero_curves
        THEN [ok |-> FALSE, error |-> Failed(TRUE, Some(forward.value))]
        ELSE IF Unwrap(rate_index) \notin self.past_close_data
        THEN [ok |-> FALSE, error |-> Failed(TRUE, rate_index)]
        ELSE [ok |-> TRUE, forward_curve |-> Some(forward.value),
              past_fixing_data |-> rate_index]

(* get_bond_pricer *)
get_bond_pricer(self, instrument) ==
    LET discount == get_discount_curve_id(self.match_parameter, instrument)
        floating == floating_rate_data(self, instrument)
    IN  IF ~discount.ok THEN Propagated(discount)
        ELSE IF discount.value \notin self.zero_curves
        THEN Failed(TRUE, Some(discount.value))
        ELSE IF ~floating.ok THEN floating.error
        ELSE Built("BondPricer",
                   [discount_curve |-> discount.value,
                    forward_curve |-> floating.forward_curve,
                    past_fixing_data |-> floating.past_fixing_data])

(* get_ktbf_pricer *)
get_ktbf_pricer(self, instrument) ==
    LET discount_curve_id == KrwGovCurveId
        collateral == get_collateral_curve_ids(self.match_parameter, instrument)
    IN  IF discount_curve_id \notin self.zero_curves
        THEN Failed(TRUE, Some(discount_curve_id))
        ELSE IF ~collateral.ok THEN Propagated(collateral)
        ELSE IF collateral.value = <<>> THEN Panicked
        ELSE IF collateral.value[1] \notin self.zero_curves
        THEN Failed(TRUE, Some(collateral.value[1]))
        ELSE Built("KtbfPricer",
                   [discount_curve |-> discount_curve_id,
                    collateral_curve |-> collateral.value[1]])

(* get_fx_futures_pricer *)
get_fx_futures_pricer(self, instrument) ==
    LET underlying == get_floating_crs_curve_id(self.match_parameter,
                                                instrument)
        futures == get_crs_curve_id(self.match_parameter, instrument)
    IN  IF ~IsSome(instrument.fxfutres_und_fxcode) THEN Failed(FALSE, None)
        ELSE LET fx_code == Unwrap(instrument.fxfutres_und_fxcode)
             IN  IF fx_code \notin self.fxs THEN Failed(TRUE, Some(fx_code))
                 ELSE IF ~underlying.ok THEN Propagated(underlying)
                 ELSE IF underlying.value \notin self.zero_curves
                 THEN Failed(TRUE, Some(underlying.value))
                 ELSE IF ~futures.ok THEN Propagated(futures)
                 ELSE IF futures.value \notin self.zero_curves
                 THEN Failed(TRUE, Some(futures.value))
                 ELSE Built("FxFuturesPricer",
                            [fx |-> fx_code,
                             underlying_currency_curve |-> underlying.value,
                             futures_currency_curve |-> futures.value])

(* get_plain_swap_pricer *)
get_plain_swap_pricer(self, instrument) ==
    LET fixed == get_crs_curve_id(self.match_parameter, instrument)
        floating == get_floating_crs_curve_id(self.match_parameter, instrument)
        data == floating_rate_data(self, instrument)
    IN  IF ~fixed.ok THEN Propagated(fixed)
        ELSE IF fixed.value \notin self.zero_curves
        THEN Failed(TRUE, Some(fixed.value))
        ELSE IF ~floating.ok THEN Propagated(floating)
        ELSE IF floating.value \notin self.zero_curves
        THEN Failed(TRUE, Some(floating.value))
        ELSE IF ~data.ok THEN data.error
        ELSE IF ~IsSome(instrument.floating_to_fixed_fxcode)
        THEN Failed(FALSE, None)
        ELSE LET fx_code == Unwrap(instrument.floating_to_fixed_fxcode)
             IN  IF IsSome(fx_code) /\ Unwrap(fx_code) \notin self.fxs
                 THEN Failed(TRUE, fx_code)
                 ELSE Built("PlainSwapPricer",
                            [fixed_leg_discount_curve |-> fixed.value,
                             floating_leg_discount_curve |-> floating.value,
                             forward_curve |-> data.forward_curve,
                             past_fixing_data |-> data.past_fixing_data,
                             floating_to_fixed_fx |-> fx_code])

(* get_stock_pricer *)
get_stock_pricer(self, instrument) ==
    IF instrument.id \notin self.equities
    THEN Failed(TRUE, Some(instrument.id))
    ELSE Built("IdentityPricer", [equity |-> instrument.id])

(* get_cash_pricer *)
get_cash_pricer(self, instrument) == Built("UnitPricer", <<>>)

(* create_pricer *)
create_pricer(self, instrument) ==
    CASE instrument.kind = "Futures" -> get_futures_pricer(self, instrument)
      [] instrument.kind = "VanillaOption" ->
             get_vanilla_option_pricer(self, instrument)
      [] instrument.kind = "Bond" -> get_bond_pricer(self, instrument)
      [] instrument.kind = "KTBF" -> get_ktbf_pricer(self, instrument)
      [] instrument.kind = "FxFutures" ->
             get_fx_futures_pricer(self, instrument)
      [] instrument.kind = "PlainSwap" ->
             get_plain_swap_pricer(self, instrument)
      [] instrument.kind = "Stock" -> get_stock_pricer(self, instrument)
      [] instrument.kind = "Cash" -> get_cash_pricer(self, instrument)
      [] OTHER -> Failed(TRUE, None)

(* The maps of the factory and the keys a map may hold. *)
MapNames ==
    {"fxs", "equities", "zero_curves", "underlying_volatilities", "quantos",
     "past_close_data"}

MapKeys(map) ==
    CASE map = "fxs" -> {FxCode("USD", "KRW")}
      [] map = "equities" -> UnderlyingIds
      [] map = "zero_curves" ->
             {StaticId_default, KrwGovCurveId} \cup
             UNION {{CurveId(t, k) : k \in TableKeys(t)} : t \in TableNames}
      [] map = "underlying_volatilities" -> {1}
      [] map = "quantos" -> {<<1, FxCode("KRW", "USD")>>}
      [] map = "past_close_data" -> {RateIndexId}

(* How many entries a configuration lacks at most. *)
MaxMissing == 2

(* An entry of a table or of a map. *)
Entries ==
    UNION {{<<t, k>> : k \in TableKeys(t)} : t \in TableNames}
    \cup UNION {{<<m, k>> : k \in MapKeys(m)} : m \in MapNames}

(* The subsets of S of at most n elements. *)
RECURSIVE SubsetsUpTo(_, _)
SubsetsUpTo(S, n) ==
    IF n = 0 THEN {{}}
    ELSE LET smaller == SubsetsUpTo(S, n - 1)
         IN  smaller \cup {p \cup {x} : p \in smaller, x \in S}

(* The complete tables and maps, less the entries of missing. *)
TablesWithout(missing) ==
    [t \in TableNames |->
        Table(t, {k \in TableKeys(t) : <<t, k>> \notin missing})]

MapsWithout(missing) ==
    [m \in MapNames |-> {k \in MapKeys(m) : <<m, k>> \notin missing}]

(* The PricerFactory: its maps, its MatchParameter and the calculation     *)
(* method of its CalculationConfiguration.                                 *)
PricerFactory ==
    [fxs |-> factory.maps["fxs"],
     equities |-> factory.maps["equities"],
     zero_curves |-> factory.maps["zero_curves"],
     underlying_volatilities |-> factory.maps["underlying_volatilities"],
     quantos |-> factory.maps["quantos"],
     past_close_data |-> factory.maps["past_close_data"],
     match_parameter |-> match_parameter,
     calculation_method |-> factory.calculation_method]

(* create_pricer on the instrument at hand. *)
CreatePricer ==
    /\ ret' = [op |-> "create_pricer",
               result |-> create_pricer(PricerFactory, instrument_arg)]
    /\ UNCHANGED <<valueVars, pricingVars, generatorVars, dateVars, calcVars>>

(* Specification of the factory: one instrument and a configuration that   *)
(* lacks a few entries.                                                    *)
InitFactory ==
    /\ instrument_arg \in Instrument
    /\ \E missing \in SubsetsUpTo(Entries, MaxMissing) :
          /\ match_parameter = TablesWithout(missing)
          /\ \E method \in {"Analytic", "MonteCarlo"} :
                factory = [maps |-> MapsWithout(missing),
                           calculation_method |-> method]
    /\ ret = NoCall
    /\ NoGenerator
    /\ NoDates
    /\ NoValues

NextFactory == CreatePricer

SpecFactory == InitFactory /\ [][NextFactory]_vars

----------------------------------------------------------------------------
(* Properties of the factory *)

(* C20: whenever a market object the instrument requires is absent from    *)
(* the maps, create_pricer returns an error result that names the          *)
(* instrument and the missing key; it never aborts the process.            *)
C20_MissingObjectIsNamedError ==
    Called("create_pricer") =>
        /\ ret.result.outcome \in {"ok", "err"}
        /\ (ret.result.outcome = "err" /\ IsSome(ret.result.key)) =>
               ret.result.names_instrument

(* The quanto key of the option at hand: its first underlying id and the   *)
(* fx pair from the underlying's currency to the option's currency.        *)
QuantoKey ==
    <<instrument_arg.underlying_ids[1],
      FxCode(Unwrap(instrument_arg.underlying_currency),
             instrument_arg.currency)>>

QuantoRequired ==
    Unwrap(instrument_arg.underlying_currency) # instrument_arg.currency

(* C21: for a vanilla option the quanto is looked up exactly when the      *)
(* option's currency differs from its underlying's currency, under the key *)
(* (first underlying id, FxCode(underlying currency, option currency)): a  *)
(* pricer that is built holds that quanto when the currencies differ and   *)
(* none when they are equal; when they differ and the key is absent the    *)
(* result is an error; when they are equal the result is what it is with   *)
(* an empty quanto map.                                                    *)
C21_QuantoLookedUpIffCurrenciesDiffer ==
    (Called("create_pricer") /\ Kind("VanillaOption")) =>
        /\ ret.result.outcome = "ok" =>
               Unwrap(ret.result.pricer).parts.quanto =
                   IF QuantoRequired THEN Some(QuantoKey) ELSE None
        /\ (QuantoRequired /\ QuantoKey \notin factory.maps["quantos"]) =>
               ret.result.outcome = "err"
        /\ ~QuantoRequired =>
               ret.result =
                   create_pricer([PricerFactory EXCEPT !.quantos = {}],
                                 instrument_arg)

(* Both cases at work: a quanto option refused for its absent quanto, or a *)
(* same-currency option priced from a factory without any quanto.          *)
C21_Witness ==
    /\ Called("create_pricer")
    /\ Kind("VanillaOption")
    /\ factory.maps["quantos"] = {}
    /\ \/ QuantoRequired /\ ret.result = Failed(TRUE, Some(QuantoKey))
       \/ ~QuantoRequired /\ ret.result.outcome = "ok"

----------------------------------------------------------------------------
(* CalculationResult (pricing_engines/calculation_result.rs).  A map is a  *)
(* function on its keys, a Vec a sequence, an Array2 a sequence of rows.   *)

(* The length of the tenor vectors of the structures. *)
MaxTenors == 2

(* fx rates handed to the conversion *)
FxRates == {Real(3, 1), Real(1, 2), Real(1, 1), Real(0, 1)}

Tenors == 1..MaxTenors

(* self.value.map(|x| x times fx_rate) *)
MapOption(o, fx_rate) == IF IsSome(o) THEN Some(Mul(Unwrap(o), fx_rate)) ELSE None

(* every entry of the map times fx_rate, under an Option *)
ScaleMap(o, fx_rate) ==
    IF IsSome(o)
    THEN Some([k \in DOMAIN Unwrap(o) |-> Mul(Unwrap(o)[k], fx_rate)])
    ELSE None

(* every element of the Vec of every entry times fx_rate *)
ScaleStructure(o, fx_rate) ==
    IF IsSome(o)
    THEN Some([k \in DOMAIN Unwrap(o) |->
                  [i \in DOMAIN Unwrap(o)[k] |->
                      Mul(Unwrap(o)[k][i], fx_rate)]])
    ELSE None

(* every element of the Array2 of every entry times fx_rate *)
ScaleMatrix(o, fx_rate) ==
    IF IsSome(o)
    THEN Some([k \in DOMAIN Unwrap(o) |->
                  [i \in DOMAIN Unwrap(o)[k] |->
                      [j \in DOMAIN Unwrap(o)[k][i] |->
                          Mul(Unwrap(o)[k][i][j], fx_rate)]]])
    ELSE None

(* CalculationResult::default(): every field None *)
CalculationResult_default ==
    [instrument_info |-> None, evaluation_date |-> None, npv_result |-> None,
     value |-> None, fx_exposure |-> None, delta |-> None, gamma |-> None,
     vega |-> None, vega_strucure |-> None, vega_matrix |-> None,
     theta |-> None, div_delta |-> None, div_structure |-> None,
     rho |-> None, rho_structure |-> None, theta_day |-> None,
     cashflows |-> None, representation_currency |-> None]

(* CalculationResult::new(instrument_info, evaluation_date) *)
CalculationResult_new(instrument_info, evaluation_date) ==
    [CalculationResult_default EXCEPT
        !.instrument_info = Some(instrument_info),
        !.evaluation_date = Some(evaluation_date),
        !.representation_currency = Some(instrument_info.currency)]

(* What the setters leave in a field once they were called. *)
FieldValues ==
    [npv_result |-> Real(100, 1),
     value |-> Real(200, 1),
     fx_exposure |-> [c \in Currencies |->
                         IF c = "KRW" THEN Real(200, 1) ELSE Real(3, 2)],
     delta |-> [k \in UnderlyingIds |-> Real(k, 2)],
     gamma |-> [k \in UnderlyingIds |-> Real(k, 4)],
     vega |-> [k \in {1} |-> Real(7, 1)],
     vega_strucure |-> [k \in {1} |-> [i \in Tenors |-> Real(i, 1)]],
     vega_matrix |-> [k \in {1} |->
                         [i \in Tenors |-> [j \in Tenors |-> Real(i, j)]]],
     theta |-> Real(1, 8),
     div_delta |-> [k \in UnderlyingIds |-> Real(k + 1, 1)],
     div_structure |-> [k \in UnderlyingIds |->
                           [i \in Tenors |-> Real(k, i)]],
     rho |-> [k \in {CurveId("funding_cost_map", "KRW")} |-> Real(5, 1)],
     rho_structure |-> [k \in {CurveId("funding_cost_map", "KRW")} |->
                           [i \in Tenors |-> Real(i + 1, 2)]],
     theta_day |-> 1,
     cashflows |-> [d \in Dates |-> Real(d, 1)]]

(* The fields the conversion multiplies by the rate. *)
MonetaryFields ==
    {"value", "fx_exposure", "delta", "gamma", "vega", "vega_strucure",
     "vega_matrix", "theta", "div_delta", "div_structure", "rho",
     "rho_structure"}

(* A result made by new() for an instrument of the currency, with the      *)
(* fields of set filled in by their setters.                               *)
ResultWith(currency, set) ==
    [CalculationResult_new([id |-> InstrumentId, currency |-> currency], 0)
     EXCEPT
        !.npv_result = IF "npv_result" \in set THEN Some(FieldValues.npv_result) ELSE None,
        !.value = IF "value" \in set THEN Some(FieldValues.value) ELSE None,
        !.fx_exposure = IF "fx_exposure" \in set THEN Some(FieldValues.fx_exposure) ELSE None,
        !.delta = IF "delta" \in set THEN Some(FieldValues.delta) ELSE None,
        !.gamma = IF "gamma" \in set THEN Some(FieldValues.gamma) ELSE None,
        !.vega = IF "vega" \in set THEN Some(FieldValues.vega) ELSE None,
        !.vega_strucure = IF "vega_strucure" \in set THEN Some(FieldValues.vega_strucure) ELSE None,
        !.vega_matrix = IF "vega_matrix" \in set THEN Some(FieldValues.vega_matrix) ELSE None,
        !.theta = IF "theta" \in set THEN Some(FieldValues.theta) ELSE None,
        !.div_delta = IF "div_delta" \in set THEN Some(FieldValues.div_delta) ELSE None,
        !.div_structure = IF "div_structure" \in set THEN Some(FieldValues.div_structure) ELSE None,
        !.rho = IF "rho" \in set THEN Some(FieldValues.rho) ELSE None,
        !.rho_structure = IF "rho_structure" \in set THEN Some(FieldValues.rho_structure) ELSE None,
        !.theta_day = IF "theta_day" \in set THEN Some(FieldValues.theta_day) ELSE None,
        !.cashflows = IF "cashflows" \in set THEN Some(FieldValues.cashflows) ELSE None]

(* How many fields of a result are set, unless all are. *)
MaxFields == 2

(* How many times a converted result is converted again. *)
MaxAgain == 2

SettableFields == MonetaryFields \cup {"npv_result", "theta_day", "cashflows"}

CalculationResults ==
    {ResultWith(currency, set) :
        currency \in Currencies,
        set \in SubsetsUpTo(SettableFields, MaxFields) \cup {SettableFields}}
    \cup {CalculationResult_default}

(* What a call hands back: a value, or the panic of an unwrap on None. *)
Returned(v) == [outcome |-> "ok", value |-> Some(v)]

UnwrapPanic == [outcome |-> "panic", value |-> None]

(* The conversion leaving theta as it is. *)
converted_keeping_theta(self, currency, fx_rate) ==
    [self EXCEPT
        !.value = MapOption(self.value, fx_rate),
        !.fx_exposure = ScaleMap(self.fx_exposure, fx_rate),
        !.delta = ScaleMap(self.delta, fx_rate),
        !.gamma = ScaleMap(self.gamma, fx_rate),
        !.vega = ScaleMap(self.vega, fx_rate),
        !.vega_strucure = ScaleStructure(self.vega_strucure, fx_rate),
        !.vega_matrix = ScaleMatrix(self.vega_matrix, fx_rate),
        !.div_delta = ScaleMap(self.div_delta, fx_rate),
        !.div_structure = ScaleStructure(self.div_structure, fx_rate),
        !.rho = ScaleMap(self.rho, fx_rate),
        !.rho_structure = ScaleStructure(self.rho_structure, fx_rate),
        !.representation_currency = Some(currency)]

(* The result representation_currency_conversion builds when the currency  *)
(* is another one (calculation_result.rs:488-625).                         *)
converted(self, currency, fx_rate) ==
    [instrument_info |-> self.instrument_info,
     evaluation_date |-> self.evaluation_date,
     npv_result |-> self.npv_result,
     value |-> MapOption(self.value, fx_rate),
     fx_exposure |-> ScaleMap(self.fx_exposure, fx_rate),
     delta |-> ScaleMap(self.delta, fx_rate),
     gamma |-> ScaleMap(self.gamma, fx_rate),
     vega |-> ScaleMap(self.vega, fx_rate),
     vega_strucure |-> ScaleStructure(self.vega_strucure, fx_rate),
     vega_matrix |-> ScaleMatrix(self.vega_matrix, fx_rate),
     theta |-> MapOption(self.theta, fx_rate),
     div_delta |-> ScaleMap(self.div_delta, fx_rate),
     div_structure |-> ScaleStructure(self.div_structure, fx_rate),
     rho |-> ScaleMap(self.rho, fx_rate),
     rho_structure |-> ScaleStructure(self.rho_structure, fx_rate),
     theta_day |-> self.theta_day,
     cashflows |-> self.cashflows,
     representation_currency |-> Some(currency)]

(* The conversion without its test of the currency. *)
representation_currency_conversion_always(self, currency, fx_rate) ==
    IF ~IsSome(self.representation_currency) THEN UnwrapPanic
    ELSE Returned(converted(self, currency, fx_rate))

(* representation_currency_conversion *)
representation_currency_conversion(self, currency, fx_rate) ==
    IF ~IsSome(self.representation_currency) THEN UnwrapPanic
    ELSE IF currency = Unwrap(self.representation_currency)
    THEN Returned(self)
    ELSE Returned(converted(self, currency, fx_rate))

(* What a conversion leaves in ret: its arguments, its result, how many    *)
(* conversions came before it in its chain and whether every conversion of *)
(* the chain asked for the currency of the result it was handed.           *)
Conversion(self, currency, fx_rate, again, same_before) ==
    [op |-> "representation_currency_conversion",
     self |-> self, currency |-> currency, fx_rate |-> fx_rate,
     again |-> again,
     same_so_far |->
         same_before /\ Some(currency) = self.representation_currency,
     result |-> representation_currency_conversion(self, currency, fx_rate)]

(* A conversion of the result at hand (which stays as it is: &self). *)
RepresentationCurrencyConversion ==
    \E currency \in Currencies, fx_rate \in FxRates :
        /\ ret' = Conversion(calculation_result, currency, fx_rate, 0, TRUE)
        /\ UNCHANGED <<valueVars, pricingVars, generatorVars, dateVars,
                       calcVars>>

(* A conversion of the result of the conversion before. *)
ConvertAgain ==
    /\ ret.op = "representation_currency_conversion"
    /\ ret.result.outcome = "ok"
    /\ ret.again < MaxAgain
    /\ \E currency \in Currencies, fx_rate \in FxRates :
           ret' = Conversion(Unwrap(ret.result.value), currency, fx_rate,
                             ret.again + 1, ret.same_so_far)
    /\ UNCHANGED <<valueVars, pricingVars, generatorVars, dateVars, calcVars>>

InitConvert ==
    /\ calculation_result \in CalculationResults
    /\ fxcode = <<>>
    /\ val_arg = <<>>
    /\ ret = NoCall
    /\ NoPricing
    /\ NoGenerator
    /\ NoDates

NextConvert == RepresentationCurrencyConversion \/ ConvertAgain

SpecConvert == InitConvert /\ [][NextConvert]_vars

----------------------------------------------------------------------------
(* Properties of the currency conversion *)

(* The conversion at hand was asked for the currency the result is in. *)
SameCurrency == Some(ret.currency) = ret.self.representation_currency

OtherCurrency ==
    /\ IsSome(ret.self.representation_currency)
    /\ ret.currency # Unwrap(ret.self.representation_currency)

(* C22: a conversion to the currency the result is represented in returns  *)
(* a result equal to the original in every field, whatever the rate; after *)
(* any number of such conversions in a row the result is still the first   *)
(* original.                                                               *)
C22_SameCurrencyConversionIsIdentity ==
    Called("representation_currency_conversion") =>
        /\ SameCurrency => ret.result = Returned(ret.self)
        /\ ret.same_so_far => ret.result = Returned(calculation_result)

(* A result with every field set, converted twice in a row to its own      *)
(* currency at a rate other than one.                                      *)
C22_Witness ==
    /\ Called("representation_currency_conversion")
    /\ ret.same_so_far
    /\ ret.again >= 1
    /\ ret.fx_rate = Real(3, 1)
    /\ calculation_result = ResultWith("KRW", SettableFields)

(* res is orig times fx_rate, for an optional number *)
ScaledNumber(res, orig, fx_rate) ==
    /\ IsSome(res) <=> IsSome(orig)
    /\ IsSome(orig) => Unwrap(res) = Mul(Unwrap(orig), fx_rate)

(* res has the keys of orig and each entry is orig's times fx_rate *)
ScaledEntries(res, orig, fx_rate) ==
    /\ IsSome(res) <=> IsSome(orig)
    /\ IsSome(orig) =>
           /\ DOMAIN Unwrap(res) = DOMAIN Unwrap(orig)
           /\ \A k \in DOMAIN Unwrap(orig) :
                  Unwrap(res)[k] = Mul(Unwrap(orig)[k], fx_rate)

(* res has the keys of orig and each element of each entry is orig's times   *)
(* fx_rate                                                                 *)
ScaledElements(res, orig, fx_rate) ==
    /\ IsSome(res) <=> IsSome(orig)
    /\ IsSome(orig) =>
           /\ DOMAIN Unwrap(res) = DOMAIN Unwrap(orig)
           /\ \A k \in DOMAIN Unwrap(orig) :
                  /\ Len(Unwrap(res)[k]) = Len(Unwrap(orig)[k])
                  /\ \A i \in DOMAIN Unwrap(orig)[k] :
                         Unwrap(res)[k][i] = Mul(Unwrap(orig)[k][i], fx_rate)

(* C23: a conversion to another currency returns a new result in which     *)
(* value, theta, every fx_exposure, delta, gamma, vega, rho and dividend-   *)
(* delta entry and every element of the vega, rho and dividend structures  *)
(* is the original times the rate, every map keeps its set of keys, the    *)
(* representation currency is the one asked for, and the original result   *)
(* is as it was before the call.                                           *)
C23_OtherCurrencyConversionScales ==
    (Called("representation_currency_conversion") /\ OtherCurrency) =>
        /\ ret.result.outcome = "ok"
        /\ LET res == Unwrap(ret.result.value)
               orig == ret.self
               r == ret.fx_rate
           IN  /\ ScaledNumber(res.value, orig.value, r)
               /\ ScaledNumber(res.theta, orig.theta, r)
               /\ ScaledEntries(res.fx_exposure, orig.fx_exposure, r)
               /\ ScaledEntries(res.delta, orig.delta, r)
               /\ ScaledEntries(res.gamma, orig.gamma, r)
               /\ ScaledEntries(res.vega, orig.vega, r)
               /\ ScaledEntries(res.rho, orig.rho, r)
               /\ ScaledEntries(res.div_delta, orig.div_delta, r)
               /\ ScaledElements(res.vega_strucure, orig.vega_strucure, r)
               /\ ScaledElements(res.rho_structure, orig.rho_structure, r)
               /\ ScaledElements(res.div_structure, orig.div_structure, r)
               /\ res.representation_currency = Some(ret.currency)
        /\ ret.again = 0 => calculation_result = ret.self

(* A result with every field set, converted to the other currency at a     *)
(* rate other than one.                                                    *)
C23_Witness ==
    /\ Called("representation_currency_conversion")
    /\ OtherCurrency
    /\ ret.again = 0
    /\ ret.fx_rate = Real(3, 1)
    /\ ret.self = ResultWith("KRW", SettableFields)
    /\ Unwrap(ret.result.value).theta = Some(Real(3, 8))

----------------------------------------------------------------------------
(* Properties of the observer lists *)

(* C24: add_dividend_observer panics when the observer is already in the   *)
(* dividend-observer list, so the list of an EvaluationDate never holds    *)
(* the same observer twice.                                                *)
C24_DividendObserverListedOnce ==
    \A e \in DOMAIN ed :
        \A d \in Range(ed[e].dividend_observers) :
            Occurrences(ed[e].dividend_observers, d) = 1

----------------------------------------------------------------------------
(* Properties of the net dividend adjustment *)

(* The MarketPrice as it was constructed. *)
AsConstructed(p) ==
    [mp[p] EXCEPT !.value = InitialValue, !.market_datetime = mp[p].constructed]

(* The value one single move from the initial market datetime to the       *)
(* current date gives: every dividend with ex-date in (d0, d] deducted     *)
(* once, or every dividend with ex-date in (d, d0] restored once.          *)
NetValue(p, d) == update_evaluation_date(AsConstructed(p), dividends, d).value

(* C27, as claimed: after any sequence of date changes the value of a      *)
(* registered MarketPrice with a dividend is its initial value with every  *)
(* dividend between its initial market datetime and the current date       *)
(* applied exactly once, whatever the dates in between were and however    *)
(* often it was registered or notified.                                    *)
C27_NetDividendDependsOnEndpoints ==
    (DateChanged /\ ret.outcome = "returned") =>
        \A p \in Registered(1) :
            HasDividend(p) => mp[p].value = NetValue(p, ed[1].date)

(* C27, amended: the same for a schedule whose ratios all differ from 1.   *)
C27_NetDividendDependsOnEndpointsUnlessFullPayout ==
    (DateChanged /\ ret.outcome = "returned") =>
        \A p \in Registered(1) :
            (HasDividend(p) /\ RatiosDifferFromOne(p)) =>
                mp[p].value = NetValue(p, ed[1].date)

(* A price constructed at date 0 and registered twice that went to date 2  *)
(* and came back to date 1: it carries the dividend of date 1 alone.       *)
C27_Witness ==
    /\ DateChanged /\ ret.outcome = "returned"
    /\ ed[1].marketprice_observers = <<1, 1>>
    /\ mp[1].dividend = Some(1)
    /\ mp[1].constructed = 0
    /\ before.taken /\ before.date = 2
    /\ ed[1].date = 1
    /\ mp[1].value = Real(50, 1)

----------------------------------------------------------------------------
(* Properties of get_calculation_results() *)

(* The groups that completed in this call. *)
Completed == {g \in Groups : pc[g] = "done"}

(* C28: after calculate() has returned, Ok or Err, the results held are    *)
(* exactly the union of the result maps of the groups that completed in    *)
(* this call: every id of a completed group is there with a value such a   *)
(* group computed, a group that failed in initialize_pricers or in         *)
(* calculate adds no entry, not even for the instruments it could price,   *)
(* and nothing an earlier call left is kept.                               *)
C28_ResultsAreUnionOfCompletedGroups ==
    phase = "returned" =>
        /\ DOMAIN calculation_results = UNION {GroupIds(g) : g \in Completed}
        /\ \A id \in DOMAIN calculation_results :
               \E g \in Completed :
                   /\ id \in GroupIds(g)
                   /\ calculation_results[id] =
                          get_calculation_result(instrument_group_vec[g])[id]

(* An Err return with a completed group and a failed group one of whose    *)
(* instruments could be priced: the results are the completed group's.     *)
C28_Witness ==
    /\ phase = "returned" /\ ~ret.ok
    /\ \E g, h \in Groups :
           /\ pc[g] = "done" /\ pc[h] = "failed"
           /\ instrument_group_vec[g] = <<Priced(2, 20), Priced(3, 30)>>
           /\ instrument_group_vec[h] = <<Priced(5, 50), Unpriced(6, "calculate")>>
    /\ DOMAIN calculation_results = {2, 3}

----------------------------------------------------------------------------
(* FxCode and Currency (currency.rs).  A str is the sequence of its        *)
(* characters.                                                             *)

(* enum Currency *)
Currency ==
    {"NIL", "KRW", "USD", "EUR", "JPY", "CNY", "CNH", "GBP", "AUD", "CAD",
     "CHF", "NZD"}

(* impl Display for Currency: the text written for each variant *)
Display ==
    [NIL |-> <<"N", "I", "L">>,
     KRW |-> <<"K", "R", "W">>,
     USD |-> <<"U", "S", "D">>,
     EUR |-> <<"E", "U", "R">>,
     JPY |-> <<"J", "P", "Y">>,
     CNY |-> <<"C", "N", "Y">>,
     CNH |-> <<"C", "N", "H">>,
     GBP |-> <<"G", "B", "P">>,
     AUD |-> <<"A", "U", "D">>,
     CAD |-> <<"C", "A", "D">>,
     CHF |-> <<"C", "H", "F">>,
     NZD |-> <<"N", "Z", "D">>]

(* The texts Currency::from_str has an arm for. *)
from_str_arms ==
    {"KRW", "USD", "EUR", "JPY", "CNY", "CNH", "GBP", "AUD", "CAD", "CHF",
     "NZD"}

(* Currency::from_str *)
from_str(s) ==
    IF \E c \in from_str_arms : Display[c] = s
    THEN Ok(CHOOSE c \in from_str_arms : Display[c] = s)
    ELSE Err(FALSE, Some(s))

(* impl Serialize for FxCode: format!("{}{}", currency1, currency2) *)
serialize(self) == Display[self[1]] \o Display[self[2]]

(* FxCodeVisitor::visit_str *)
visit_str(value) ==
    IF Len(value) # 6 THEN Err(FALSE, Some(value))
    ELSE LET currency1 == from_str(SubSeq(value, 1, 3))
             currency2 == from_str(SubSeq(value, 4, 6))
         IN  IF ~currency1.ok THEN currency1
             ELSE IF ~currency2.ok THEN currency2
             ELSE Ok(FxCode(currency1.value, currency2.value))

(* Texts that are not the serialized form of any FxCode. *)
OtherTexts ==
    {<<>>, Display["KRW"], Display["KRW"] \o Display["USD"] \o Display["EUR"],
     <<"k", "r", "w", "u", "s", "d">>}

(* to_string(&fxcode) *)
SerializeFxCode ==
    /\ ret' = [op |-> "serialize", text |-> serialize(fxcode)]
    /\ UNCHANGED <<valueVars, pricingVars, generatorVars, dateVars, calcVars>>

(* from_str::<FxCode> on the text serialized before, or on another text *)
DeserializeFxCode ==
    /\ \E value \in (IF ret.op = "serialize" THEN {ret.text} ELSE {})
                    \cup OtherTexts :
           ret' = [op |-> "deserialize", value |-> value,
                   result |-> visit_str(value)]
    /\ UNCHANGED <<valueVars, pricingVars, generatorVars, dateVars, calcVars>>

InitFxCode ==
    /\ fxcode \in {FxCode(currency1, currency2) :
                       currency1 \in Currency, currency2 \in Currency}
    /\ calculation_result = <<>>
    /\ val_arg = <<>>
    /\ ret = NoCall
    /\ NoPricing
    /\ NoGenerator
    /\ NoDates

NextFxCode == SerializeFxCode \/ DeserializeFxCode

SpecFxCode == InitFxCode /\ [][NextFxCode]_vars

(* C25: deserializing the serialized form of an FxCode gives an FxCode     *)
(* equal to the original, for every pair of Currency values.               *)
C25_FxCodeRoundTrip ==
    (Called("deserialize") /\ ret.value = serialize(fxcode)) =>
        ret.result = Ok(fxcode)

----------------------------------------------------------------------------
(* FinerPeriod::new_from_string (time/period.rs).  The string is the       *)
(* sequence of its characters; the numbers stay far below the i32 range.   *)

(* The length of the strings tried, the documented example apart. *)
MaxLen == 4

(* The characters of the strings tried: digits, calendar units, sub-day    *)
(* units and a character that is no unit.                                  *)
Alphabet == {"1", "2", "D", "W", "h", "s", "l", "x"}

(* The example of the documentation: "1Y2M3D4h5m6s7l8u9n" *)
DocExample ==
    <<"1", "Y", "2", "M", "3", "D", "4", "h", "5", "m", "6", "s", "7", "l",
      "8", "u", "9", "n">>

AsciiDigits == <<"0", "1", "2", "3", "4", "5", "6", "7", "8", "9">>

is_ascii_digit(c) == \E d \in 1..10 : AsciiDigits[d] = c

to_digit(c) == (CHOOSE d \in 1..10 : AsciiDigits[d] = c) - 1

CalendarUnits == {"Y", "M", "W", "D"}

SubDayUnits == {"h", "m", "s", "l", "u", "n"}

(* Period::default() and the locals as the loop starts *)
ParseStart ==
    [period |-> [years |-> 0, months |-> 0, days |-> 0],
     hours |-> 0, minutes |-> 0, milli_seconds |-> 0, nano_seconds |-> 0,
     num |-> 0, is_period |-> TRUE, invalid |-> FALSE]

(* One turn of the loop over val.chars() *)
parse_char(st, c) ==
    IF is_ascii_digit(c) THEN [st EXCEPT !.num = st.num * 10 + to_digit(c)]
    ELSE IF c \notin CalendarUnits \cup SubDayUnits
    THEN [st EXCEPT !.invalid = TRUE]
    ELSE [(CASE c = "Y" -> [st EXCEPT !.period.years = st.num]
             [] c = "M" -> [st EXCEPT !.period.months = st.num]
             [] c = "W" -> [st EXCEPT !.period.days = st.num * 7]
             [] c = "D" -> [st EXCEPT !.period.days = st.num]
             [] c = "h" -> [st EXCEPT !.hours = st.num]
             [] c = "m" -> [st EXCEPT !.minutes = st.num]
             [] c = "s" -> [st EXCEPT !.milli_seconds = @ + st.num * 1000]
             [] c = "l" -> [st EXCEPT !.milli_seconds = @ + st.num]
             [] c = "u" -> [st EXCEPT !.nano_seconds = @ + st.num * 1000]
             [] c = "n" -> [st EXCEPT !.nano_seconds = @ + st.num])
          EXCEPT !.num = 0, !.is_period = (c \in CalendarUnits)]

(* The loop, left at the first character that is no unit. *)
RECURSIVE parse_chars(_, _, _)
parse_chars(val, i, st) ==
    IF i > Len(val) \/ st.invalid THEN st
    ELSE parse_chars(val, i + 1, parse_char(st, val[i]))

FinerPeriod_new(period, hours, minutes, milli_seconds, nano_seconds) ==
    [period |-> period, hours |-> hours, minutes |-> minutes,
     milli_seconds |-> milli_seconds, nano_seconds |-> nano_seconds]

(* FinerPeriod::new_from_string *)
new_from_string(val) ==
    LET st == parse_chars(val, 1, ParseStart)
    IN  IF st.invalid THEN Err(FALSE, Some(val))
        ELSE IF st.is_period
        THEN Ok(FinerPeriod_new(st.period, st.hours, st.minutes,
                                st.milli_seconds, st.nano_seconds))
        ELSE Err(FALSE, Some(val))

NewFromString ==
    /\ ret' = [op |-> "new_from_string", result |-> new_from_string(val_arg)]
    /\ UNCHANGED <<valueVars, pricingVars, generatorVars, dateVars, calcVars>>

InitPeriod ==
    /\ val_arg \in SeqsUpTo(Alphabet, MaxLen) \cup {DocExample}
    /\ calculation_result = <<>>
    /\ fxcode = <<>>
    /\ ret = NoCall
    /\ NoPricing
    /\ NoGenerator
    /\ NoDates

NextPeriod == NewFromString

SpecPeriod == InitPeriod /\ [][NextPeriod]_vars

(* The positions of val that hold a unit, and the number written before    *)
(* the unit u (0 when val has no u).                                       *)
UnitPositions(val) == {i \in 1..Len(val) : ~is_ascii_digit(val[i])}

RECURSIVE NumberEndingAt(_, _)
NumberEndingAt(val, i) ==
    IF i = 0 \/ ~is_ascii_digit(val[i]) THEN 0
    ELSE NumberEndingAt(val, i - 1) * 10 + to_digit(val[i])

NumberBefore(val, u) ==
    IF \E i \in 1..Len(val) : val[i] = u
    THEN NumberEndingAt(val, (CHOOSE i \in 1..Len(val) : val[i] = u) - 1)
    ELSE 0

(* val is numbers with units, each unit once, the calendar units first and *)
(* at least one sub-day unit after them.                                   *)
CalendarThenSubDay(val) ==
    /\ \A i \in UnitPositions(val) : val[i] \in CalendarUnits \cup SubDayUnits
    /\ \A i, j \in UnitPositions(val) :
           /\ i # j => val[i] # val[j]
           /\ (i < j /\ val[j] \in CalendarUnits) => val[i] \in CalendarUnits
    /\ \E i \in UnitPositions(val) : val[i] \in SubDayUnits
    /\ val # <<>> /\ ~is_ascii_digit(val[Len(val)])

(* C26: new_from_string accepts a string whose calendar units are followed *)
(* by sub-day units and returns Ok with the hours and minutes as written,  *)
(* milli_seconds = 1000*s + l and nano_seconds = 1000*u + n; the example   *)
(* of the documentation gives years 1, months 2, days 3, hours 4,          *)
(* minutes 5, milli_seconds 6007 and nano_seconds 8009.                    *)
C26_SubDayUnitsAccepted ==
    (Called("new_from_string") /\ CalendarThenSubDay(val_arg)) =>
        /\ ret.result.ok
        /\ ret.result.value.hours = NumberBefore(val_arg, "h")
        /\ ret.result.value.minutes = NumberBefore(val_arg, "m")
        /\ ret.result.value.milli_seconds =
               1000 * NumberBefore(val_arg, "s") + NumberBefore(val_arg, "l")
        /\ ret.result.value.nano_seconds =
               1000 * NumberBefore(val_arg, "u") + NumberBefore(val_arg, "n")
        /\ val_arg = DocExample =>
               ret.result.value =
                   FinerPeriod_new([years |-> 1, months |-> 2, days |-> 3],
                                   4, 5, 6007, 8009)

----------------------------------------------------------------------------
(* Properties of the lists create_pricer indexes *)

(* The kinds whose pricer takes element 0 of a list. *)
IndexingKinds == {"Futures", "VanillaOption", "KTBF"}

(* C29: create_pricer never reads the first element of an empty list: for  *)
(* a Futures, a VanillaOption or a KTBF the collateral and borrowing lists *)
(* are non-empty whenever their resolution succeeded, and for a KTBF, which *)
(* reports no underlying ids, create_pricer ends with a pricer or an error *)
(* value and not with an abort.                                            *)
C29_NoIndexIntoEmptyList ==
    (Called("create_pricer") /\ instrument_arg.kind \in IndexingKinds) =>
        LET collateral == get_collateral_curve_ids(match_parameter,
                                                   instrument_arg)
            borrowing == get_borrowing_curve_ids(match_parameter,
                                                 instrument_arg)
        IN  /\ collateral.ok => collateral.value # <<>>
            /\ (borrowing.ok /\ ~Kind("KTBF")) => borrowing.value # <<>>
            /\ Kind("KTBF") => ret.result.outcome \in {"ok", "err"}

----------------------------------------------------------------------------
(* Properties of instruments without underlying ids *)

(* C30: an instrument that reports no underlying ids is accepted by a      *)
(* category whose underlying_ids filter is set, provided its type and      *)
(* currency filters match; distribute_instruments() then does not report   *)
(* it and, when it succeeds, has it in the group of a category, as the     *)
(* bonds and the cash of the engine test are.                              *)
C30_NoUnderlyingPassesUnderlyingFilter ==
    Distributed =>
        \A c \in 1..Len(instrument_categories), i \in 1..Len(instruments) :
            ( /\ instruments[i].underlying_ids = <<>>
              /\ IsSome(instrument_categories[c].underlying_ids)
              /\ TypeFilterHolds(instrument_categories[c], instruments[i])
              /\ CurrencyFilterHolds(instrument_categories[c], instruments[i]) )
            => /\ contains(instrument_categories[c], instruments[i])
               /\ i \notin UncoveredPositions
               /\ ret.ok =>
                      OccurrencesInGroups(instrument_group_vec, instruments[i]) >= 1

(* As in the engine test: a category of KRW futures on underlying 1 and a  *)
(* category with the same underlying filter; a futures goes to the first   *)
(* group and a USD bond to the second.                                     *)
C30_Witness ==
    /\ Distributed /\ ret.ok
    /\ instrument_categories =
           <<[type_names |-> Some({"Futures"}), currency |-> Some({"KRW"}),
              underlying_ids |-> Some(<<1>>)],
             [type_names |-> None, currency |-> None,
              underlying_ids |-> Some(<<1>>)]>>
    /\ instruments =
           <<[type_name |-> "Bond", currency |-> "USD", underlying_ids |-> <<>>],
             [type_name |-> "Futures", currency |-> "KRW",
              underlying_ids |-> <<1>>]>>
    /\ instrument_group_vec = <<<<instruments[2]>>, <<instruments[1]>>>>

====
